---- MODULE Spec2Model ----
(***************************************************************************)
(* Loan-cost simulation and recommendation engine of loan-ai               *)
(* (apps/api/app/services/financial.py, recommendations.py,                *)
(* applications.py).                                                       *)
(*                                                                         *)
(* Number representation.  The Python code computes in IEEE doubles; here  *)
(* money is an integer number of currency units, annual rates are integer  *)
(* percentages (the decimal rate times 100, so a monthly rate is pct/1200) *)
(* and every division rounds down.  Monthly IRR is carried in units of     *)
(* 1/RateScale, and so is the APR.                     *)
(***************************************************************************)
EXTENDS Integers, Sequences, FiniteSets, TLC

VARIABLES
    pc,          \* which engine entry point the current request has reached
    inp,         \* arguments of generate_amortization_schedule / stress_test_scenarios
    schedule,    \* AmortizationSchedule returned by generate_amortization_schedule
    scenarios,   \* Dict[str, LoanCostSummary] returned by stress_test_scenarios
    the_application,  \* the Application row a recommendation request reads
    products,    \* the active LoanProduct rows, in query order
    today,       \* date.today()
    filter_result,           \* (passes, reasons) of _apply_hard_filters_with_tenor
    the_effective_tenor,     \* generate_recommendations' effective_tenor for the product
    idx,                     \* position of generate_recommendations' loop in products
    ranked_recommendations,  \* generate_recommendations' list of (rec, total)
    rejected_products,       \* generate_recommendations' list of RejectedProduct
    all_scenarios,           \* generate_recommendations' dict of scenario summaries
    runs,                    \* number of requests answered so far
    response,                \* RecommendationResponse of the latest run
    previous_response,       \* RecommendationResponse of the run before it
    irr,                     \* calculate_irr's cashflows, rate, iteration count, result
    fee_call,                \* calculate_prepayment_fee's arguments and result
    application_create,      \* the ApplicationCreate payload of create_application
    promo_end                \* _calculate_prepayment_at_promo_end's result

engine_vars == <<inp, schedule, scenarios>>
run_vars == <<idx, ranked_recommendations, rejected_products, all_scenarios>>
reco_vars == <<the_application, products, today, filter_result, the_effective_tenor,
               run_vars, runs,
               response, previous_response>>
call_vars == <<irr, fee_call, application_create, promo_end>>
vars == <<pc, engine_vars, reco_vars, call_vars>>

(***************************************************************************)
(* Bounds of the model                                                     *)
(***************************************************************************)
MaxTenor == 3

(***************************************************************************)
(* Fixed-point units                                                       *)
(***************************************************************************)
FactorScale == 100000
RateScale == 10000
Inf == 1000000000

Max(a, b) == IF a >= b THEN a ELSE b
Min(a, b) == IF a <= b THEN a ELSE b
Abs(a) == IF a >= 0 THEN a ELSE -a

(***************************************************************************)
(* RateStructure.get_rate_for_month: annual rate (in percent) of a month.  *)
(* scenario_bump is in percentage points (the code's bump * 100).          *)
(***************************************************************************)
get_rate_for_month_no_bump(rs, month, scenario_bump) ==
    IF month <= rs.fixed_months
    THEN rs.fixed_rate_pct
    ELSE rs.reference_rate_pct + rs.floating_margin_pct

get_rate_for_month(rs, month, scenario_bump) ==
    IF month <= rs.fixed_months
    THEN rs.fixed_rate_pct
    ELSE rs.reference_rate_pct + rs.floating_margin_pct + scenario_bump

(***************************************************************************)
(* annuity_payment.  payment = P*i*f/(f-1) with f = (1+i)^n, i = pct/1200. *)
(* Since i*f/(f-1) = i + 1/s with s = ((1+i)^n - 1)/i = sum_{k<n} (1+i)^k, *)
(* the payment is evaluated as P*i + P/s, s in units of 1/FactorScale.     *)
(***************************************************************************)
RECURSIVE GrowthSum(_, _, _)
GrowthSum(pct, months, g) ==
    IF months <= 0 THEN 0
    ELSE g + GrowthSum(pct, months - 1, (g * (1200 + pct)) \div 1200)

annuity_payment(principal, annual_rate, months) ==
    IF principal <= 0 \/ months <= 0 THEN 0
    ELSE LET rate == Max(annual_rate, 0)
         IN  IF rate = 0 THEN principal \div months
             ELSE (principal * rate) \div 1200
                  + (principal * FactorScale) \div GrowthSum(rate, months, FactorScale)

(***************************************************************************)
(* Fee calculations                                                        *)
(***************************************************************************)
_calculate_upfront_fees(principal, fs) ==
    LET origination == Min(Max((principal * fs.origination_fee_pct) \div 100,
                               fs.origination_min_vnd),
                           fs.origination_max_vnd)
    IN  origination + fs.appraisal_fee_vnd + fs.disbursement_fee_vnd
        + (principal * fs.disbursement_fee_pct) \div 100

_calculate_monthly_insurance(balance, fs) ==
    IF fs.insurance_vnd > 0 THEN fs.insurance_vnd \div 12
    ELSE IF fs.insurance_annual_pct > 0
         THEN IF fs.insurance_basis = "on_property_value" /\ fs.property_value_vnd > 0
              THEN (fs.property_value_vnd * fs.insurance_annual_pct) \div 1200
              ELSE (balance * fs.insurance_annual_pct) \div 1200
         ELSE 0

\* the lookup with the last month of a tier left out of its range
RECURSIVE _calculate_prepayment_fee_exclusive(_, _, _)
_calculate_prepayment_fee_exclusive(remaining_balance, month, prepayment_schedule) ==
    IF prepayment_schedule = <<>> THEN 0
    ELSE LET tier == Head(prepayment_schedule)
         IN  IF tier.months_from <= month /\ month < tier.months_to
             THEN (remaining_balance * tier.fee_pct) \div 100
             ELSE _calculate_prepayment_fee_exclusive(remaining_balance, month,
                                                      Tail(prepayment_schedule))

\* months_to = None is the value Inf (float('inf') in the code)
RECURSIVE _calculate_prepayment_fee(_, _, _)
_calculate_prepayment_fee(remaining_balance, month, prepayment_schedule) ==
    IF prepayment_schedule = <<>> THEN 0
    ELSE LET tier == Head(prepayment_schedule)
         IN  IF tier.months_from <= month /\ month <= tier.months_to
             THEN (remaining_balance * tier.fee_pct) \div 100
             ELSE _calculate_prepayment_fee(remaining_balance, month,
                                            Tail(prepayment_schedule))

calculate_prepayment_fee(remaining_balance, month, fs) ==
    IF ~fs.present THEN 0
    ELSE _calculate_prepayment_fee(remaining_balance, month, fs.prepayment_schedule)

(***************************************************************************)
(* generate_amortization_schedule                                          *)
(***************************************************************************)
MonthlyPayment(month, interest, principal, payment, remaining_balance, fees, insurance, rate_applied, is_grace_period) ==
    [month |-> month, interest |-> interest, principal |-> principal,
     payment |-> payment, remaining_balance |-> remaining_balance,
     fees |-> fees, insurance |-> insurance, rate_applied |-> rate_applied,
     is_grace_period |-> is_grace_period]

AmortizationSchedule(payments, total_interest, total_principal, total_payments, total_fees, total_insurance) ==
    [payments |-> payments, total_interest |-> total_interest,
     total_principal |-> total_principal, total_payments |-> total_payments,
     total_fees |-> total_fees, total_insurance |-> total_insurance]

prepayment_step_no_break(a, st, month) ==
    LET prepay_fee == _calculate_prepayment_fee(
                          st.remaining, month,
                          IF a.fee_structure.present
                          THEN a.fee_structure.prepayment_schedule ELSE <<>>)
        final_payment == MonthlyPayment(month, 0, st.remaining,
                                        st.remaining + prepay_fee, 0,
                                        prepay_fee, 0, st.current_rate, FALSE)
    IN  [st EXCEPT !.payments = Append(@, final_payment),
                   !.total_principal = @ + st.remaining,
                   !.total_fees = @ + prepay_fee]

\* the payoff entry appended without adding its fee to the running total
prepayment_step_fee_not_totalled(a, st, month) ==
    LET prepay_fee == _calculate_prepayment_fee(
                          st.remaining, month,
                          IF a.fee_structure.present
                          THEN a.fee_structure.prepayment_schedule ELSE <<>>)
        final_payment == MonthlyPayment(month, 0, st.remaining,
                                        st.remaining + prepay_fee, 0,
                                        prepay_fee, 0, st.current_rate, FALSE)
    IN  [st EXCEPT !.payments = Append(@, final_payment),
                   !.total_principal = @ + st.remaining,
                   !.stop = TRUE]

\* a partial prepayment that pays the specified amount only
prepayment_step_partial_amount(a, st, month) ==
    LET paid == IF a.prepayment_info.is_partial
                THEN Min(a.prepayment_info.prepayment_amount_vnd, st.remaining)
                ELSE st.remaining
        prepay_fee == _calculate_prepayment_fee(
                          paid, month,
                          IF a.fee_structure.present
                          THEN a.fee_structure.prepayment_schedule ELSE <<>>)
        final_payment == MonthlyPayment(month, 0, paid, paid + prepay_fee,
                                        st.remaining - paid,
                                        prepay_fee, 0, st.current_rate, FALSE)
    IN  [st EXCEPT !.payments = Append(@, final_payment),
                   !.total_principal = @ + paid,
                   !.total_fees = @ + prepay_fee,
                   !.stop = TRUE]

\* the prepayment branch of the loop: terminal payoff entry, then break
prepayment_step(a, st, month) ==
    LET prepay_fee == _calculate_prepayment_fee(
                          st.remaining, month,
                          IF a.fee_structure.present
                          THEN a.fee_structure.prepayment_schedule ELSE <<>>)
        final_payment == MonthlyPayment(month, 0, st.remaining,
                                        st.remaining + prepay_fee, 0,
                                        prepay_fee, 0, st.current_rate, FALSE)
    IN  [st EXCEPT !.payments = Append(@, final_payment),
                   !.total_principal = @ + st.remaining,
                   !.total_fees = @ + prepay_fee,
                   !.stop = TRUE]

\* the grace period one month short
principal_and_payment_short_grace(a, remaining, month, current_rate, interest) ==
    IF month < a.grace_principal_months
    THEN <<0, interest>>
    ELSE LET remaining_months == a.tenor_months - month + 1
         IN  IF a.repayment_method = "equal_principal"
             THEN LET principal_payment == remaining \div remaining_months
                  IN  <<principal_payment, principal_payment + interest>>
             ELSE LET payment == annuity_payment(remaining, current_rate, remaining_months)
                  IN  <<payment - interest, payment>>

\* the principal spread over the whole tenor instead of the months left
principal_and_payment_whole_tenor(a, remaining, month, current_rate, interest) ==
    IF month <= a.grace_principal_months
    THEN <<0, interest>>
    ELSE LET remaining_months == a.tenor_months
         IN  IF a.repayment_method = "equal_principal"
             THEN LET principal_payment == remaining \div remaining_months
                  IN  <<principal_payment, principal_payment + interest>>
             ELSE LET payment == annuity_payment(remaining, current_rate, remaining_months)
                  IN  <<payment - interest, payment>>

\* principal portion and payment of a month outside the prepayment branch
principal_and_payment(a, remaining, month, current_rate, interest) ==
    IF month <= a.grace_principal_months
    THEN <<0, interest>>
    ELSE LET remaining_months == a.tenor_months - month + 1
         IN  IF a.repayment_method = "equal_principal"
             THEN LET principal_payment == remaining \div remaining_months
                  IN  <<principal_payment, principal_payment + interest>>
             ELSE LET payment == annuity_payment(remaining, current_rate, remaining_months)
                  IN  <<payment - interest, payment>>

\* "Ensure we don't pay more principal than remaining"
balance_after_unclamped(remaining, principal_payment) ==
    <<principal_payment, remaining - principal_payment>>

balance_after(remaining, principal_payment) ==
    LET clamped == Min(principal_payment, remaining)
    IN  <<clamped, Max(0, remaining - clamped)>>

\* one iteration of the loop outside the prepayment branch
regular_step(a, st, month) ==
    LET new_rate == get_rate_for_month(a.rate_structure, month, a.scenario_bump)
        current_rate == IF Abs(new_rate - st.current_rate) > 0
                        THEN new_rate ELSE st.current_rate
        is_principal_grace == month <= a.grace_principal_months
        is_interest_grace == month <= a.grace_interest_months
        interest == IF is_interest_grace THEN 0
                    ELSE (st.remaining * current_rate) \div 1200
        pp == principal_and_payment(a, st.remaining, month, current_rate, interest)
        bal == balance_after(st.remaining, pp[1])
        principal_payment == bal[1]
        remaining == bal[2]
        monthly_fees == IF a.fee_structure.present
                        THEN a.fee_structure.account_maintenance_fee_vnd ELSE 0
        monthly_insurance == IF a.fee_structure.present
                             THEN _calculate_monthly_insurance(
                                      remaining + principal_payment, a.fee_structure)
                             ELSE 0
        mp == MonthlyPayment(month, interest, principal_payment, pp[2], remaining,
                             monthly_fees, monthly_insurance, current_rate,
                             is_principal_grace \/ is_interest_grace)
    IN  [remaining |-> remaining,
         current_rate |-> current_rate,
         payments |-> Append(st.payments, mp),
         total_interest |-> st.total_interest + interest,
         total_principal |-> st.total_principal + principal_payment,
         total_fees |-> st.total_fees + monthly_fees,
         total_insurance |-> st.total_insurance + monthly_insurance,
         stop |-> remaining <= 0]

is_prepayment_month_any(a, month) ==
    a.prepayment_info.present

is_prepayment_month(a, month) ==
    a.prepayment_info.present /\ a.prepayment_info.prepayment_month = month

\* for month in range(1, tenor_months + 1)
RECURSIVE schedule_loop(_, _, _)
schedule_loop(a, st, month) ==
    IF month > a.tenor_months \/ st.stop THEN st
    ELSE IF is_prepayment_month(a, month)
         THEN schedule_loop(a, prepayment_step(a, st, month), month + 1)
         ELSE schedule_loop(a, regular_step(a, st, month), month + 1)

RECURSIVE SumField(_, _)
SumField(payments, f) ==
    IF payments = <<>> THEN 0
    ELSE Head(payments)[f] + SumField(Tail(payments), f)

generate_amortization_schedule(a) ==
    IF a.principal <= 0 \/ a.tenor_months <= 0
    THEN AmortizationSchedule(<<>>, 0, 0, 0, 0, 0)
    ELSE LET upfront_fees == IF a.fee_structure.present
                             THEN _calculate_upfront_fees(a.principal, a.fee_structure)
                             ELSE 0
             st0 == [remaining |-> a.principal,
                     current_rate |-> get_rate_for_month(a.rate_structure, 1,
                                                         a.scenario_bump),
                     payments |-> <<>>,
                     total_interest |-> 0,
                     total_principal |-> 0,
                     total_fees |-> upfront_fees,
                     total_insurance |-> 0,
                     stop |-> FALSE]
             st == schedule_loop(a, st0, 1)
         IN  AmortizationSchedule(st.payments, st.total_interest, st.total_principal,
                                  SumField(st.payments, "payment"),
                                  st.total_fees, st.total_insurance)

(***************************************************************************)
(* calculate_irr: Newton-Raphson on the NPV of a cashflow vector.          *)
(* rate is the monthly rate in units of 1/RateScale; (1 + rate)^t is       *)
(* carried in units of 1/RateScale as well.                                *)
(***************************************************************************)
\* a * b / RateScale without leaving 32 bits (a >= 0, b >= 0)
MulRate(a, b) == (a \div RateScale) * b + ((a % RateScale) * b) \div RateScale

\* truncating division, any signs (d # 0)
Quot(n, d) ==
    IF (n >= 0) = (d > 0) THEN Abs(n) \div Abs(d) ELSE -(Abs(n) \div Abs(d))

\* (1 + rate) ** t
RECURSIVE Discount(_, _)
Discount(rate, t) ==
    IF t = 0 THEN RateScale ELSE MulRate(Discount(rate, t - 1), RateScale + rate)

\* npv += cf / discount, over t = from .. len(cashflows) - 1
RECURSIVE Npv(_, _, _)
Npv(cashflows, rate, t) ==
    IF t >= Len(cashflows) THEN 0
    ELSE Quot(cashflows[t + 1] * RateScale, Discount(rate, t))
         + Npv(cashflows, rate, t + 1)

\* npv_derivative -= t * cf / (1 + rate) ** (t + 1), for t > 0
RECURSIVE NpvDerivative(_, _, _)
NpvDerivative(cashflows, rate, t) ==
    IF t >= Len(cashflows) THEN 0
    ELSE (IF t > 0
          THEN -Quot(t * cashflows[t + 1] * RateScale, Discount(rate, t + 1))
          ELSE 0)
         + NpvDerivative(cashflows, rate, t + 1)

\* the update with the upper bound of the rate left out
NewtonUpdate_no_upper_bound(rate, npv, npv_derivative) ==
    LET k == (Abs(npv_derivative) \div 20000) + 1
        step == IF Abs(npv) >= 2 * Abs(npv_derivative)
                THEN (IF (npv >= 0) = (npv_derivative > 0) THEN 2 ELSE -2) * RateScale
                ELSE Quot(Quot(npv, k) * RateScale, Quot(npv_derivative, k))
    IN  Max(-(RateScale \div 2), rate - step)

\* rate - npv / npv_derivative, bounded to [-0.5, 1.0]
NewtonUpdate(rate, npv, npv_derivative) ==
    LET k == (Abs(npv_derivative) \div 20000) + 1
        step == IF Abs(npv) >= 2 * Abs(npv_derivative)
                THEN (IF (npv >= 0) = (npv_derivative > 0) THEN 2 ELSE -2) * RateScale
                ELSE Quot(Quot(npv, k) * RateScale, Quot(npv_derivative, k))
        new_rate == rate - step
    IN  Max(-(RateScale \div 2), Min(new_rate, RateScale))

InitialGuess == RateScale \div 100
MaxIterations == 100

RECURSIVE irr_loop(_, _, _)
irr_loop(cashflows, rate, iterations_left) ==
    IF iterations_left = 0 THEN rate
    ELSE LET npv == Npv(cashflows, rate, 0)
             npv_derivative == NpvDerivative(cashflows, rate, 0)
         IN  IF npv_derivative = 0 THEN rate
             ELSE LET new_rate == NewtonUpdate(rate, npv, npv_derivative)
                  IN  IF new_rate = rate THEN new_rate
                      ELSE irr_loop(cashflows, new_rate, iterations_left - 1)

calculate_irr(cashflows) ==
    IF Len(cashflows) < 2 THEN 0
    ELSE irr_loop(cashflows, InitialGuess, MaxIterations)

\* (1 + monthly_irr) ** k in units of 1/RateScale
RECURSIVE Compound(_, _)
Compound(monthly_irr, k) ==
    IF k = 0 THEN RateScale ELSE MulRate(Compound(monthly_irr, k - 1), RateScale + monthly_irr)

\* t = 1..n: -(payment + fees + insurance), the last one also - prepayment_fee
Cashflows(principal, payments, upfront_fees, prepayment_fee) ==
    <<principal - upfront_fees>> \o
    [i \in 1..Len(payments) |->
        -(payments[i].payment + payments[i].fees + payments[i].insurance
          + (IF i = Len(payments) THEN prepayment_fee ELSE 0))]

calculate_apr(principal, sched, upfront_fees, prepayment_fee) ==
    IF sched.payments = <<>> THEN 0
    ELSE Compound(calculate_irr(Cashflows(principal, sched.payments,
                                          upfront_fees, prepayment_fee)), 12)
         - RateScale

(***************************************************************************)
(* stress_test_scenarios                                                   *)
(***************************************************************************)
LoanCostSummary(total_interest, total_fees, total_insurance, total_cost_excluding_principal, total_out_of_pocket, apr, monthly_payment_first_12m, monthly_payment_post_promo, prepayment_fee) ==
    [total_interest |-> total_interest, total_fees |-> total_fees,
     total_insurance |-> total_insurance,
     total_cost_excluding_principal |-> total_cost_excluding_principal,
     total_out_of_pocket |-> total_out_of_pocket, apr |-> apr,
     monthly_payment_first_12m |-> monthly_payment_first_12m,
     monthly_payment_post_promo |-> monthly_payment_post_promo,
     prepayment_fee |-> prepayment_fee]

\* [p for p in payments if p.month <= horizon]
RECURSIVE UpToMonth(_, _)
UpToMonth(payments, horizon) ==
    IF payments = <<>> THEN <<>>
    ELSE (IF Head(payments).month <= horizon THEN <<Head(payments)>> ELSE <<>>)
         \o UpToMonth(Tail(payments), horizon)

\* [p for p in payments if p.month > fixed_months]
RECURSIVE AfterMonth(_, _)
AfterMonth(payments, fixed_months) ==
    IF payments = <<>> THEN <<>>
    ELSE (IF Head(payments).month > fixed_months THEN <<Head(payments)>> ELSE <<>>)
         \o AfterMonth(Tail(payments), fixed_months)

\* p.fees of the entry of the prepayment month, 0 when there is none
RECURSIVE PrepayFeeOf(_, _)
PrepayFeeOf(payments, prepayment_month) ==
    IF payments = <<>> THEN 0
    ELSE IF Head(payments).month = prepayment_month THEN Head(payments).fees
         ELSE PrepayFeeOf(Tail(payments), prepayment_month)

Average(payments) ==
    IF payments = <<>> THEN 0 ELSE SumField(payments, "payment") \div Len(payments)

scenario_summary(a, bump) ==
    LET horizon == IF a.horizon_months # 0 THEN a.horizon_months ELSE a.tenor_months
        sched == generate_amortization_schedule(
                     [a EXCEPT !.scenario_bump = bump, !.grace_interest_months = 0])
        horizon_payments == UpToMonth(sched.payments, horizon)
        total_interest == SumField(horizon_payments, "interest")
        upfront_fees == IF a.fee_structure.present
                        THEN _calculate_upfront_fees(a.principal, a.fee_structure)
                        ELSE 0
        total_fees == SumField(horizon_payments, "fees") + upfront_fees
        total_insurance == SumField(horizon_payments, "insurance")
        prepay_fee == IF a.prepayment_info.present
                         /\ a.prepayment_info.prepayment_month # 0
                      THEN PrepayFeeOf(sched.payments, a.prepayment_info.prepayment_month)
                      ELSE 0
        apr == calculate_apr(a.principal, sched, upfront_fees, prepay_fee)
        first_12 == SubSeq(horizon_payments, 1, Min(12, Len(horizon_payments)))
        post_promo == AfterMonth(sched.payments, a.rate_structure.fixed_months)
        total_payments == SumField(horizon_payments, "payment")
    IN  LoanCostSummary(total_interest, total_fees, total_insurance,
                        total_interest + total_fees + total_insurance,
                        upfront_fees + total_payments + total_insurance + prepay_fee,
                        apr, Average(first_12), Average(post_promo), prepay_fee)

\* scenarios = [0.0, 0.02, 0.04], keyed "+0%", "+2%", "+4%"
ScenarioBumps == <<0, 2, 4>>
ScenarioNames == <<"+0%", "+2%", "+4%">>

stress_test_scenarios(a) ==
    [name \in {ScenarioNames[i] : i \in 1..3} |->
        scenario_summary(a, ScenarioBumps[CHOOSE i \in 1..3 : ScenarioNames[i] = name])]

(***************************************************************************)
(* Inputs of the scheduler                                                 *)
(***************************************************************************)
Principals == {12000, 20000}

RateStructure(fixed_rate_pct, fixed_months, floating_margin_pct, reference_rate_pct) ==
    [fixed_rate_pct |-> fixed_rate_pct, fixed_months |-> fixed_months,
     floating_margin_pct |-> floating_margin_pct,
     reference_rate_pct |-> reference_rate_pct]

RateStructures ==
    { RateStructure(6, 1, 3, 5),           \* promo month, then 5% + 3% floating
      RateStructure(12, MaxTenor, 0, 5),   \* fixed over the whole tenor
      RateStructure(0, 0, 0, 0),           \* floating from month 1, zero base rate
      RateStructure(12, 2, 0, 5),          \* rate resets downward after 2 months
      RateStructure(-12, 1, 2, 5) }        \* not re-validated: negative promo rate

PrepaymentTier(months_from, months_to, fee_pct) ==
    [months_from |-> months_from, months_to |-> months_to, fee_pct |-> fee_pct]

FeeStructure(origination_fee_pct, origination_min_vnd, origination_max_vnd, appraisal_fee_vnd, account_maintenance_fee_vnd, insurance_annual_pct, prepayment_schedule) ==
    [present |-> TRUE,
     origination_fee_pct |-> origination_fee_pct,
     origination_min_vnd |-> origination_min_vnd,
     origination_max_vnd |-> origination_max_vnd,
     appraisal_fee_vnd |-> appraisal_fee_vnd,
     disbursement_fee_vnd |-> 0,
     disbursement_fee_pct |-> 0,
     account_maintenance_fee_vnd |-> account_maintenance_fee_vnd,
     insurance_annual_pct |-> insurance_annual_pct,
     insurance_vnd |-> 0,
     insurance_basis |-> "on_balance",
     property_value_vnd |-> 0,
     prepayment_schedule |-> prepayment_schedule]

\* fee_structure = None
NoFeeStructure == [FeeStructure(0, 0, Inf, 0, 0, 0, <<>>) EXCEPT !.present = FALSE]

FeeStructures ==
    { NoFeeStructure,
      FeeStructure(0, 0, Inf, 0, 0, 0, <<>>),
      FeeStructure(1, 150, 180, 50, 10, 1,
                   <<PrepaymentTier(1, 1, 3), PrepaymentTier(2, Inf, 1)>>) }

PrepaymentInfo(prepayment_month, prepayment_amount_vnd, is_partial) ==
    [present |-> TRUE, prepayment_month |-> prepayment_month,
     prepayment_amount_vnd |-> prepayment_amount_vnd, is_partial |-> is_partial]

\* prepayment_info = None
NoPrepaymentInfo == [PrepaymentInfo(0, 0, FALSE) EXCEPT !.present = FALSE]

PrepaymentInfos ==
    {NoPrepaymentInfo} \cup {PrepaymentInfo(k, 0, FALSE) : k \in 1..(MaxTenor + 1)}

\* is_partial = True with an amount below and an amount above the balance
PartialPrepaymentInfos ==
    {PrepaymentInfo(k, amount, TRUE) : k \in 1..MaxTenor, amount \in {5000, 50000}}

ScheduleArgs ==
    [principal : Principals,
     tenor_months : 1..MaxTenor,
     rate_structure : RateStructures,
     repayment_method : {"annuity", "equal_principal"},
     grace_principal_months : 0..(MaxTenor + 1),
     grace_interest_months : {0, 1, MaxTenor},
     fee_structure : FeeStructures,
     prepayment_info : PrepaymentInfos \cup PartialPrepaymentInfos,
     scenario_bump : {0, 2, 4},
     horizon_months : {0}]

NoSchedule == AmortizationSchedule(<<>>, 0, 0, 0, 0, 0)
NoScenarios == <<>>
NoArgs == <<>>

\* calculate_prepayment_fee has not been called
NoFeeCall == [remaining_balance |-> 0, month |-> 0, fee_structure |-> NoFeeStructure,
              result |-> 0]

\* calculate_irr is not running
NoIrr ==
    [cashflows |-> <<>>, rate |-> 0, npv |-> 0, npv_derivative |-> 0, iterations |-> 0,
     result |-> 0]

(***************************************************************************)
(* recommendations._calculate_prepayment_at_promo_end.  a carries the      *)
(* principal, the effective tenor, the rate and fee structures, the        *)
(* repayment method and the grace months of the product.                   *)
(***************************************************************************)
PrepaymentAtPromoEnd(prepayment_month, remaining_principal, prepayment_fee, total_interest_paid, total_fees_paid, total_cost_to_exit) ==
    [present |-> TRUE, prepayment_month |-> prepayment_month,
     remaining_principal |-> remaining_principal, prepayment_fee |-> prepayment_fee,
     total_interest_paid |-> total_interest_paid, total_fees_paid |-> total_fees_paid,
     total_cost_to_exit |-> total_cost_to_exit]

\* return None
NoPromoEnd == [PrepaymentAtPromoEnd(0, 0, 0, 0, 0, 0) EXCEPT !.present = FALSE]

\* lines 907-911: the loop over schedule_no_prepay.payments
RECURSIVE to_promo_end(_, _, _)
to_promo_end(payments, fixed_months, acc) ==
    IF payments = <<>> THEN acc
    ELSE LET p == Head(payments)
         IN  to_promo_end(Tail(payments), fixed_months,
                          IF p.month <= fixed_months
                          THEN [remaining |-> p.remaining_balance,
                                interest |-> acc.interest + p.interest,
                                fees |-> acc.fees + p.fees]
                          ELSE acc)

_calculate_prepayment_at_promo_end(a) ==
    LET fixed_months == a.rate_structure.fixed_months
        sched == generate_amortization_schedule(
                     [a EXCEPT !.prepayment_info = PrepaymentInfo(fixed_months, 0, FALSE),
                               !.grace_interest_months = 0, !.scenario_bump = 0])
        upfront_fees == _calculate_upfront_fees(a.principal, a.fee_structure)
        schedule_no_prepay == generate_amortization_schedule(
                     [a EXCEPT !.prepayment_info = NoPrepaymentInfo,
                               !.grace_interest_months = 0, !.scenario_bump = 0])
        at_end == to_promo_end(schedule_no_prepay.payments, fixed_months,
                               [remaining |-> a.principal, interest |-> 0,
                                fees |-> upfront_fees])
        prepay_fee == _calculate_prepayment_fee(at_end.remaining, fixed_months,
                                                a.fee_structure.prepayment_schedule)
    IN  IF fixed_months <= 0 THEN NoPromoEnd
        ELSE IF sched.payments = <<>> THEN NoPromoEnd
        ELSE PrepaymentAtPromoEnd(fixed_months, at_end.remaining, prepay_fee,
                                  at_end.interest, at_end.fees,
                                  at_end.remaining + at_end.interest + at_end.fees
                                      + prepay_fee)

(***************************************************************************)
(* Applications and products as the recommendation engine reads them.      *)
(* An optional column that the code tests by truthiness is 0 (or "" or the *)
(* empty set) when it is NULL; a value the code tests with "is not None"   *)
(* is None when absent.  Ratios (dsr, ltv, max_dsr, max_ltv) are in units  *)
(* of 1/RateScale, scores in units of 1/ScoreScale of a point, dates are   *)
(* day numbers.                                                            *)
(***************************************************************************)
None == -1
ScoreScale == 100

Clamp(lo, hi, x) == Max(lo, Min(hi, x))

RECURSIVE SumOf(_, _)
SumOf(rows, f) == IF rows = <<>> THEN 0 ELSE Head(rows)[f] + SumOf(Tail(rows), f)

BlankApplication ==
    [purpose |-> "NEW_PURCHASE",
     loan_amount |-> 12000,
     tenor_months |-> 0,
     repayment_strategy |-> "",
     planned_hold_months |-> 0,
     expected_prepayment_month |-> 0,
     expected_prepayment_amount_vnd |-> None,
     need_disbursement_by_date |-> 0,
     geo_location |-> "",
     income_type |-> "",
     monthly_income_vnd |-> 0,
     proof_strength |-> "",
     existing_debts_monthly_payment_vnd |-> 0,
     credit_flags |-> [has_late_payments |-> FALSE, cic_bad_debt |-> FALSE],
     property_type |-> "",
     legal_status |-> "",
     estimated_property_value_vnd |-> 0,
     preferences |-> [priority_cost_vs_stability |-> None],
     incomes |-> <<>>,
     debts |-> <<>>,
     collaterals |-> <<>>]

(***************************************************************************)
(* applications.create_application: the enum-valued fields of the payload  *)
(* are strings; Enum(value) raises ValueError for a value that is not a    *)
(* member, and the field then stays None ("" here).                        *)
(***************************************************************************)
IncomeType == {"SALARY", "BUSINESS", "RENTAL", "OTHER"}
ProofStrength == {"STRONG", "MEDIUM", "WEAK"}
CollateralType == {"HOUSE", "LAND", "APT", "OFF_PLAN", "COMMERCIAL", "OTHER"}
LegalStatus == {"CLEAR", "PENDING", "DISPUTED"}

\* if value: try: Enum(value) except ValueError: pass
parse_enum(members, value) == IF value # "" /\ value \in members THEN value ELSE ""

NoApplicationCreate ==
    [purpose |-> "", loan_amount |-> 0, tenor_months |-> 0, repayment_strategy |-> "",
     income_type |-> "", monthly_income_vnd |-> 0, proof_strength |-> "",
     property_type |-> "", legal_status |-> "", estimated_property_value_vnd |-> 0]

\* the payload's strings stored as they came
create_application_unparsed(application) ==
    [BlankApplication EXCEPT
        !.purpose = application.purpose,
        !.loan_amount = application.loan_amount,
        !.tenor_months = application.tenor_months,
        !.income_type = application.income_type,
        !.monthly_income_vnd = application.monthly_income_vnd,
        !.proof_strength = application.proof_strength,
        !.property_type = application.property_type,
        !.legal_status = application.legal_status,
        !.estimated_property_value_vnd = application.estimated_property_value_vnd]

\* the Application row built at lines 116-155 (repayment_strategy is not
\* passed on, so the row has none)
create_application(application) ==
    [BlankApplication EXCEPT
        !.purpose = application.purpose,
        !.loan_amount = application.loan_amount,
        !.tenor_months = application.tenor_months,
        !.income_type = parse_enum(IncomeType, application.income_type),
        !.monthly_income_vnd = application.monthly_income_vnd,
        !.proof_strength = parse_enum(ProofStrength, application.proof_strength),
        !.property_type = parse_enum(CollateralType, application.property_type),
        !.legal_status = parse_enum(LegalStatus, application.legal_status),
        !.estimated_property_value_vnd = application.estimated_property_value_vnd]

ApplicationIncome(monthly_net) == [monthly_net |-> monthly_net]
ApplicationDebt(monthly_payment, outstanding_balance) ==
    [monthly_payment |-> monthly_payment, outstanding_balance |-> outstanding_balance]
ApplicationCollateral(collateral_type, estimated_value) ==
    [collateral_type |-> collateral_type, estimated_value |-> estimated_value]

NoBank ==
    [present |-> FALSE, coverage_provinces |-> {},
     processing_sla |-> [present |-> FALSE, pre_approval_days |-> 0,
                         appraisal_days |-> 0, final_approval_days |-> 0,
                         disbursement_days |-> 0],
     data_confidence_score |-> 50]

Bank(coverage_provinces) == [NoBank EXCEPT !.present = TRUE, !.coverage_provinces = coverage_provinces]

NoRateModel ==
    [present |-> FALSE, promo_options |-> <<>>,
     floating |-> [floating_margin_pct |-> None, reference_rate_source_url |-> FALSE,
                   caps_floors |-> FALSE],
     reference_rate_base_pct |-> 0]

PromoOption(fixed_rate_pct, fixed_months) ==
    [fixed_rate_pct |-> fixed_rate_pct, fixed_months |-> fixed_months]

BlankProduct ==
    [id |-> 0,
     purpose |-> "HOME_PURCHASE",
     min_term_months |-> 0,
     max_term_months |-> 0,
     max_ltv_pct |-> 0,
     min_loan_amount |-> 0,
     max_loan_amount |-> 0,
     eligibility |-> [income_type_supported |-> {}, min_income_vnd |-> 0],
     collateral |-> [collateral_types |-> {}],
     bank |-> NoBank,
     constraints_json |-> [hard |-> [max_dsr |-> None, max_ltv |-> None,
                                     min_income_monthly |-> None]],
     rate_fixed |-> 0,
     rate_fixed_months |-> 0,
     floating_margin |-> 0,
     rate_model |-> NoRateModel,
     fees_penalties |-> NoFeeStructure,
     repayment |-> [repayment_method |-> "annuity", grace_principal_months |-> 0],
     sla_days_estimate |-> 0]

(***************************************************************************)
(* applications.calculate_application_metrics                              *)
(***************************************************************************)
calculate_application_metrics(application) ==
    LET income_sum == SumOf(application.incomes, "monthly_net")
        total_income == IF application.monthly_income_vnd # 0
                        THEN Max(income_sum, application.monthly_income_vnd)
                        ELSE income_sum
        debt_sum == SumOf(application.debts, "monthly_payment")
        total_debt_payments == IF application.existing_debts_monthly_payment_vnd # 0
                               THEN Max(debt_sum, application.existing_debts_monthly_payment_vnd)
                               ELSE debt_sum
        dsr == IF total_income > 0
               THEN (total_debt_payments * RateScale) \div total_income
               ELSE None
        property_value == IF application.estimated_property_value_vnd # 0
                          THEN application.estimated_property_value_vnd
                          ELSE SumOf(application.collaterals, "estimated_value")
        ltv == IF property_value > 0
               THEN (application.loan_amount * RateScale) \div property_value
               ELSE None
        dti == IF total_income > 0
               THEN (SumOf(application.debts, "outstanding_balance") * RateScale)
                        \div (total_income * 12)
               ELSE None
    IN  [total_income |-> total_income, total_debt_payments |-> total_debt_payments,
         dsr |-> dsr, ltv |-> ltv, dti |-> dti, property_value |-> property_value]

(***************************************************************************)
(* recommendations._extract_user_input                                     *)
(***************************************************************************)
_extract_user_input(application, metrics) ==
    [property_value |->
        IF application.estimated_property_value_vnd # 0
        THEN application.estimated_property_value_vnd
        ELSE SumOf(application.collaterals, "estimated_value"),
     priority_cost_vs_stability |->
        IF application.preferences.priority_cost_vs_stability = None
        THEN 50
        ELSE application.preferences.priority_cost_vs_stability]

(***************************************************************************)
(* recommendations._get_optimal_tenor                                      *)
(***************************************************************************)
\* the LONG_HOLD target returned without clamping it to the product's terms
_get_optimal_tenor_unclamped(application, product) ==
    IF application.tenor_months # 0 THEN application.tenor_months
    ELSE LET min_term == IF product.min_term_months # 0 THEN product.min_term_months ELSE 12
             max_term == IF product.max_term_months # 0 THEN product.max_term_months ELSE 360
         IN  IF application.repayment_strategy = "LONG_HOLD"
             THEN 240
             ELSE max_term

_get_optimal_tenor(application, product) ==
    IF application.tenor_months # 0 THEN application.tenor_months
    ELSE LET min_term == IF product.min_term_months # 0 THEN product.min_term_months ELSE 12
             max_term == IF product.max_term_months # 0 THEN product.max_term_months ELSE 360
         IN  IF application.repayment_strategy = "LONG_HOLD"
             THEN Max(min_term, Min(240, max_term))
             ELSE max_term

\* generate_recommendations, line 269
effective_tenor_of(application, product) ==
    IF application.tenor_months # 0 THEN application.tenor_months
    ELSE _get_optimal_tenor(application, product)

(***************************************************************************)
(* recommendations._apply_hard_filters_with_tenor.  Each check appends its *)
(* code to reasons and falls through to the next one.                      *)
(***************************************************************************)
purpose_matches(app_purpose, product_purpose) ==
    \/ app_purpose = product_purpose
    \/ (app_purpose = "NEW_PURCHASE" /\ product_purpose \in {"HOME_PURCHASE", "NEW_PURCHASE"})
    \/ (app_purpose = "HOME_PURCHASE" /\ product_purpose = "NEW_PURCHASE")

Append_if(reasons, failed, code) == IF failed THEN Append(reasons, code) ELSE reasons

_apply_hard_filters_first_failure(application, metrics, product, user_input, effective_tenor) ==
    LET r == IF ~purpose_matches(application.purpose, product.purpose)
             THEN <<"PURPOSE_NOT_SUPPORTED">>
             ELSE IF product.min_term_months # 0 /\ effective_tenor < product.min_term_months
             THEN <<"TENOR_TOO_SHORT">>
             ELSE IF product.max_term_months # 0 /\ effective_tenor > product.max_term_months
             THEN <<"TENOR_TOO_LONG">>
             ELSE IF user_input.property_value > 0 /\ product.max_ltv_pct # 0
                     /\ application.loan_amount * 100 > user_input.property_value * product.max_ltv_pct
             THEN <<"LTV_EXCEEDS_MAX">>
             ELSE IF product.min_loan_amount # 0 /\ application.loan_amount < product.min_loan_amount
             THEN <<"LOAN_AMOUNT_TOO_LOW">>
             ELSE IF product.max_loan_amount # 0 /\ application.loan_amount > product.max_loan_amount
             THEN <<"LOAN_AMOUNT_TOO_HIGH">>
             ELSE IF product.eligibility.income_type_supported # {} /\ application.income_type # ""
                     /\ application.income_type \notin product.eligibility.income_type_supported
             THEN <<"INCOME_TYPE_NOT_SUPPORTED">>
             ELSE IF product.eligibility.min_income_vnd # 0 /\ metrics.total_income # 0
                     /\ metrics.total_income < product.eligibility.min_income_vnd
             THEN <<"INCOME_BELOW_MIN">>
             ELSE IF product.collateral.collateral_types # {} /\ application.collaterals # <<>>
                     /\ ~\E i \in 1..Len(application.collaterals) :
                           application.collaterals[i].collateral_type
                               \in product.collateral.collateral_types
             THEN <<"COLLATERAL_TYPE_NOT_ALLOWED">>
             ELSE IF product.bank.present /\ product.bank.coverage_provinces # {}
                     /\ application.geo_location # ""
                     /\ application.geo_location \notin product.bank.coverage_provinces
             THEN <<"GEO_NOT_SUPPORTED">>
             ELSE IF product.constraints_json.hard.max_dsr # None /\ metrics.dsr # None
                     /\ metrics.dsr > product.constraints_json.hard.max_dsr
             THEN <<"DSR_EXCEEDS_MAX">>
             ELSE <<>>
    IN  <<r = <<>>, r>>

_apply_hard_filters_with_tenor(application, metrics, product, user_input, effective_tenor) ==
    LET r0 == <<>>
        r1 == Append_if(r0, ~purpose_matches(application.purpose, product.purpose),
                        "PURPOSE_NOT_SUPPORTED")
        r2 == Append_if(r1, product.min_term_months # 0
                            /\ effective_tenor < product.min_term_months,
                        "TENOR_TOO_SHORT")
        r3 == Append_if(r2, product.max_term_months # 0
                            /\ effective_tenor > product.max_term_months,
                        "TENOR_TOO_LONG")
        \* loan_amount > property_value * (max_ltv_pct / 100)
        r4 == Append_if(r3, user_input.property_value > 0 /\ product.max_ltv_pct # 0
                            /\ application.loan_amount * 100
                                   > user_input.property_value * product.max_ltv_pct,
                        "LTV_EXCEEDS_MAX")
        r5 == Append_if(r4, product.min_loan_amount # 0
                            /\ application.loan_amount < product.min_loan_amount,
                        "LOAN_AMOUNT_TOO_LOW")
        r6 == Append_if(r5, product.max_loan_amount # 0
                            /\ application.loan_amount > product.max_loan_amount,
                        "LOAN_AMOUNT_TOO_HIGH")
        r7 == Append_if(r6, product.eligibility.income_type_supported # {}
                            /\ application.income_type # ""
                            /\ application.income_type
                                   \notin product.eligibility.income_type_supported,
                        "INCOME_TYPE_NOT_SUPPORTED")
        \* if min_income and metrics.get("total_income"): a total income of 0
        \* is falsy and skips the comparison
        r8 == Append_if(r7, product.eligibility.min_income_vnd # 0
                            /\ metrics.total_income # 0
                            /\ metrics.total_income < product.eligibility.min_income_vnd,
                        "INCOME_BELOW_MIN")
        r9 == Append_if(r8, product.collateral.collateral_types # {}
                            /\ application.collaterals # <<>>
                            /\ ~\E i \in 1..Len(application.collaterals) :
                                  application.collaterals[i].collateral_type
                                      \in product.collateral.collateral_types,
                        "COLLATERAL_TYPE_NOT_ALLOWED")
        r10 == Append_if(r9, product.bank.present /\ product.bank.coverage_provinces # {}
                             /\ application.geo_location # ""
                             /\ application.geo_location
                                    \notin product.bank.coverage_provinces,
                         "GEO_NOT_SUPPORTED")
        r11 == Append_if(r10, product.constraints_json.hard.max_dsr # None
                              /\ metrics.dsr # None
                              /\ metrics.dsr > product.constraints_json.hard.max_dsr,
                         "DSR_EXCEEDS_MAX")
    IN  <<Len(r11) = 0, r11>>

\* RateStructure.get_rate_for_month evaluates month <= self.fixed_months: a
\* fixed_months that is None (a JSON null) makes Python raise TypeError
raises_type_error(a) == a.rate_structure.fixed_months = None

\* generate_recommendations, line 277
primary_reason_of(reasons) == IF reasons # <<>> THEN reasons[1] ELSE "UNKNOWN"

(***************************************************************************)
(* Builders of the engine's inputs from a product and an application       *)
(***************************************************************************)
_build_rate_structure(product) ==
    LET rm == product.rate_model
        fixed_rate == IF rm.present /\ rm.promo_options # <<>>
                      THEN rm.promo_options[1].fixed_rate_pct
                      ELSE product.rate_fixed
        fixed_months == IF rm.present /\ rm.promo_options # <<>>
                        THEN rm.promo_options[1].fixed_months
                        ELSE product.rate_fixed_months
        floating_margin == IF rm.present /\ rm.floating.floating_margin_pct # None
                           THEN rm.floating.floating_margin_pct
                           ELSE product.floating_margin
        reference_rate == IF rm.present /\ rm.reference_rate_base_pct # 0
                          THEN rm.reference_rate_base_pct
                          ELSE 5
    IN  RateStructure(fixed_rate, fixed_months, floating_margin, reference_rate)

_build_fee_structure(product) ==
    IF ~product.fees_penalties.present
    THEN FeeStructure(0, 0, Inf, 0, 0, 0, <<>>)
    ELSE product.fees_penalties

_build_prepay_info(application) ==
    IF application.expected_prepayment_month = 0 THEN NoPrepaymentInfo
    ELSE PrepaymentInfo(application.expected_prepayment_month,
                        IF application.expected_prepayment_amount_vnd \in {None, 0}
                        THEN 0 ELSE application.expected_prepayment_amount_vnd,
                        application.expected_prepayment_amount_vnd # None)

_get_repayment_method(product) == product.repayment.repayment_method

_get_grace_months(product) == product.repayment.grace_principal_months

(***************************************************************************)
(* Score functions.  A score of s points is the integer s * ScoreScale.    *)
(***************************************************************************)
Points(p) == p * ScoreScale

\* max(0, min(100, 100 - (apr_pct - 8) * (100 / 7))) averaged with
\* max(0, min(100, 100 - (cost_ratio - 0.10) * (100 / 0.40))).  Both lines
\* saturate, so the arguments are cut to the range where they do not before
\* they are multiplied.
_calculate_cost_score(scenario, principal) ==
    LET apr == Clamp(-RateScale, RateScale, scenario.apr)
        apr_score == Clamp(0, Points(100),
                           Points(100) - ((apr * 100 - 8 * RateScale) * ScoreScale)
                                             \div (7 * (RateScale \div 100)))
        total_cost == Clamp(-principal, principal, scenario.total_cost_excluding_principal)
        cost_score == IF principal > 0
                      THEN Clamp(0, Points(100),
                                 Points(100) - ((total_cost * 250 * ScoreScale) \div principal
                                                - 25 * ScoreScale))
                      ELSE Clamp(0, Points(100), Points(100) + 25 * ScoreScale)
    IN  (apr_score + cost_score) \div 2

\* max(0, min(100, 100 - volatility * 500))
volatility_score_of(base, stress) ==
    IF base.monthly_payment_first_12m > 0
    THEN LET first == base.monthly_payment_first_12m
             rise == Clamp(-first, first, stress.monthly_payment_post_promo - first)
         IN  Clamp(0, Points(100), Points(100) - (rise * 500 * ScoreScale) \div first)
    ELSE Points(100)

RECURSIVE longest_fixed_months(_, _)
longest_fixed_months(promo_options, fixed_months) ==
    IF promo_options = <<>> THEN fixed_months
    ELSE longest_fixed_months(Tail(promo_options),
                              Max(fixed_months, Head(promo_options).fixed_months))

_calculate_stability_score(product, base, stress, user_input) ==
    LET volatility_score == volatility_score_of(base, stress)
        fixed_months == IF product.rate_model.present
                        THEN longest_fixed_months(product.rate_model.promo_options,
                                                  product.rate_fixed_months)
                        ELSE product.rate_fixed_months
        fixed_score == Min(Points(100), (fixed_months * Points(100)) \div 24)
        pref == user_input.priority_cost_vs_stability
    IN  \* volatility_score * (1 - pref/100 * 0.3) + fixed_score * (pref/100 * 0.3 + 0.35)
        (volatility_score * (1000 - 3 * pref) + fixed_score * (3 * pref + 350)) \div 1000

_calculate_approval_score(product, application, metrics) ==
    LET hard_rules == product.constraints_json.hard
        max_dsr == hard_rules.max_dsr
        dsr_points == IF max_dsr # None /\ max_dsr # 0 /\ metrics.dsr # None
                      THEN IF max_dsr > 0
                           THEN ((max_dsr - metrics.dsr) * 15 * ScoreScale) \div max_dsr
                           ELSE 0
                      ELSE 0
        max_ltv == IF hard_rules.max_ltv # None /\ hard_rules.max_ltv # 0
                   THEN hard_rules.max_ltv
                   ELSE IF product.max_ltv_pct # 0
                        THEN (product.max_ltv_pct * RateScale) \div 100
                        ELSE None
        ltv_points == IF max_ltv # None /\ max_ltv # 0 /\ metrics.ltv # None
                      THEN IF max_ltv > 0
                           THEN ((max_ltv - metrics.ltv) * 10 * ScoreScale) \div max_ltv
                           ELSE 0
                      ELSE 0
        proof_bonus == CASE application.proof_strength = "STRONG" -> Points(10)
                         [] application.proof_strength = "MEDIUM" -> Points(5)
                         [] application.proof_strength = "WEAK" -> -Points(5)
                         [] OTHER -> 0
        late == IF application.credit_flags.has_late_payments THEN Points(15) ELSE 0
        bad_debt == IF application.credit_flags.cic_bad_debt THEN Points(25) ELSE 0
    IN  Clamp(0, Points(100),
              Points(70) + dsr_points + ltv_points + proof_bonus - late - bad_debt)

sla_days_of(product) ==
    IF product.bank.present /\ product.bank.processing_sla.present
    THEN product.bank.processing_sla.pre_approval_days
         + product.bank.processing_sla.appraisal_days
         + product.bank.processing_sla.final_approval_days
         + product.bank.processing_sla.disbursement_days
    ELSE IF product.sla_days_estimate # 0 THEN product.sla_days_estimate ELSE 30

\* date_today is the value of date.today() when the function runs
_calculate_speed_score(product, application, date_today) ==
    LET sla_days == sla_days_of(product)
    IN  IF application.need_disbursement_by_date = 0
        THEN Clamp(Points(50), Points(100),
                   Points(100) - ((sla_days - 7) * 50 * ScoreScale) \div 53)
        ELSE LET days_until_needed == application.need_disbursement_by_date - date_today
             IN  IF sla_days <= days_until_needed
                 THEN Min(Points(100),
                          Points(80)
                          + (IF days_until_needed > 0
                             THEN ((days_until_needed - sla_days) * 20 * ScoreScale)
                                      \div days_until_needed
                             ELSE 20 * ScoreScale))
                 ELSE Max(0, Points(50) - (sla_days - days_until_needed) * 5 * ScoreScale)

_calculate_penalties_score(product, application, scenario) ==
    IF application.expected_prepayment_month = 0 THEN Points(80)
    ELSE IF application.loan_amount <= 0 THEN Points(80)
    ELSE LET fee_pct == (scenario.prepayment_fee * 100 * ScoreScale)
                            \div application.loan_amount
         IN  Clamp(0, Points(100), Points(100) - (fee_pct * 100) \div 3)

_calculate_multi_factor_score(product, application, metrics, user_input, scens, date_today) ==
    LET base_scenario == scens["+0%"]
        stress_4pct == scens["+4%"]
        cost_score == _calculate_cost_score(base_scenario, application.loan_amount)
        stability_score == _calculate_stability_score(product, base_scenario, stress_4pct,
                                                      user_input)
        approval_score == _calculate_approval_score(product, application, metrics)
        speed_score == _calculate_speed_score(product, application, date_today)
        penalties_score == _calculate_penalties_score(product, application, base_scenario)
    IN  [total |-> (35 * cost_score + 25 * stability_score + 20 * approval_score
                    + 10 * speed_score + 10 * penalties_score) \div 100,
         cost |-> cost_score, stability |-> stability_score,
         approval |-> approval_score, speed |-> speed_score,
         penalties |-> penalties_score]

(***************************************************************************)
(* Strategy-specific scores and weights (in percent)                       *)
(***************************************************************************)
RECURSIVE _get_prepay_fee_at_month(_, _)
_get_prepay_fee_at_month(prepayment_schedule, month) ==
    IF prepayment_schedule = <<>> THEN 0
    ELSE LET tier == Head(prepayment_schedule)
         IN  IF month >= tier.months_from /\ month <= tier.months_to
             THEN tier.fee_pct
             ELSE _get_prepay_fee_at_month(Tail(prepayment_schedule), month)

_calculate_early_exit_penalties_score(product, application, scenario) ==
    IF ~product.fees_penalties.present THEN Points(80)
    ELSE IF product.fees_penalties.prepayment_schedule = <<>> THEN Points(80)
    ELSE LET sch == product.fees_penalties.prepayment_schedule
             fee_sum == _get_prepay_fee_at_month(sch, 12)
                        + _get_prepay_fee_at_month(sch, 24)
                        + _get_prepay_fee_at_month(sch, 36)
         IN  \* avg_fee = fee_sum / 3;  100 - avg_fee * (100 / 3)
             Clamp(0, Points(100), Points(100) - (fee_sum * 100 * ScoreScale) \div 9)

_calculate_long_hold_stability_score(product, base, stress) ==
    LET margin == _build_rate_structure(product).floating_margin_pct
        margin_score == Clamp(0, Points(100),
                              Points(100) - ((margin - 1) * 100 * ScoreScale) \div 3)
        source_bonus == IF product.rate_model.present
                           /\ product.rate_model.floating.reference_rate_source_url
                        THEN Points(10) ELSE 0
        caps_bonus == IF product.rate_model.present
                         /\ product.rate_model.floating.caps_floors
                      THEN Points(10) ELSE 0
        volatility_part == IF base.monthly_payment_first_12m > 0
                           THEN (volatility_score_of(base, stress) * 3) \div 10
                           ELSE 0
    IN  Clamp(0, Points(100),
              Points(50) + (margin_score * 3) \div 10 + source_bonus + caps_bonus
              + volatility_part)

strategy_weights(strategy) ==
    CASE strategy = "UNCERTAIN" ->
            [cost |-> 30, stability |-> 20, approval |-> 20, speed |-> 10, penalties |-> 20]
      [] strategy = "EARLY_EXIT" ->
            [cost |-> 25, stability |-> 10, approval |-> 20, speed |-> 15, penalties |-> 30]
      [] strategy = "LONG_HOLD" ->
            [cost |-> 35, stability |-> 35, approval |-> 20, speed |-> 5, penalties |-> 5]
      [] OTHER ->
            [cost |-> 35, stability |-> 25, approval |-> 20, speed |-> 10, penalties |-> 10]

\* the total taken from the scores as they were before the strategy's
\* sub-score was recomputed
_calculate_strategy_adjusted_score_base_total(base_scores, application, product, scens) ==
    LET strategy == application.repayment_strategy
        weights == strategy_weights(strategy)
        adjusted ==
            IF strategy = "EARLY_EXIT"
            THEN [base_scores EXCEPT !.penalties =
                      _calculate_early_exit_penalties_score(product, application, scens["+0%"])]
            ELSE IF strategy = "LONG_HOLD"
            THEN [base_scores EXCEPT !.stability =
                      _calculate_long_hold_stability_score(product, scens["+0%"], scens["+4%"])]
            ELSE base_scores
        total == (weights.cost * base_scores.cost + weights.stability * base_scores.stability
                  + weights.approval * base_scores.approval + weights.speed * base_scores.speed
                  + weights.penalties * base_scores.penalties) \div 100
    IN  [total |-> total, cost |-> adjusted.cost, stability |-> adjusted.stability,
         approval |-> adjusted.approval, speed |-> adjusted.speed,
         penalties |-> adjusted.penalties, weights |-> weights]

_calculate_strategy_adjusted_score(base_scores, application, product, scens) ==
    LET strategy == application.repayment_strategy
        weights == strategy_weights(strategy)
        adjusted ==
            IF strategy = "EARLY_EXIT"
            THEN [base_scores EXCEPT !.penalties =
                      _calculate_early_exit_penalties_score(product, application, scens["+0%"])]
            ELSE IF strategy = "LONG_HOLD"
            THEN [base_scores EXCEPT !.stability =
                      _calculate_long_hold_stability_score(product, scens["+0%"], scens["+4%"])]
            ELSE base_scores
        total == (weights.cost * adjusted.cost + weights.stability * adjusted.stability
                  + weights.approval * adjusted.approval + weights.speed * adjusted.speed
                  + weights.penalties * adjusted.penalties) \div 100
    IN  [total |-> total, cost |-> adjusted.cost, stability |-> adjusted.stability,
         approval |-> adjusted.approval, speed |-> adjusted.speed,
         penalties |-> adjusted.penalties, weights |-> weights]

(***************************************************************************)
(* generate_recommendations                                                *)
(***************************************************************************)
\* int(round(total)): Python rounds halves to the even neighbour
round_to_int(score) ==
    LET q == score \div ScoreScale
        r == score % ScoreScale
    IN  IF 2 * r > ScoreScale THEN q + 1
        ELSE IF 2 * r < ScoreScale THEN q
        ELSE IF q % 2 = 0 THEN q ELSE q + 1

_bucket_from_score(score) ==
    IF score >= Points(75) THEN "HIGH"
    ELSE IF score >= Points(50) THEN "MEDIUM"
    ELSE "LOW"

_build_recommendation(product, scores, scens, application, suggested_tenor) ==
    [product_id |-> product.id,
     fit_score |-> round_to_int(scores.total),
     approval_bucket |-> _bucket_from_score(scores.approval),
     approval_score |-> scores.approval,
     cost_score |-> scores.cost,
     stability_score |-> scores.stability,
     speed_score |-> scores.speed,
     penalties_score |-> scores.penalties,
     grace_principal_months |-> _get_grace_months(product),
     repayment_method |-> _get_repayment_method(product),
     suggested_tenor_months |-> suggested_tenor,
     apr |-> scens["+0%"].apr]

RejectedProduct(product_id, reasons, reason_code) ==
    [product_id |-> product_id, reasons |-> reasons, reason_code |-> reason_code]

\* the horizon chosen without looking at the strategy
horizon_of_any_strategy(application, effective_tenor) ==
    IF application.planned_hold_months # 0 THEN application.planned_hold_months
    ELSE effective_tenor

\* lines 296-300
horizon_of(application, effective_tenor) ==
    IF application.planned_hold_months # 0 THEN application.planned_hold_months
    ELSE IF application.repayment_strategy = "EARLY_EXIT" THEN 36
    ELSE effective_tenor

\* the arguments of the call of stress_test_scenarios, lines 303-312
stress_arguments(application, product, effective_tenor) ==
    [principal |-> application.loan_amount,
     tenor_months |-> effective_tenor,
     rate_structure |-> _build_rate_structure(product),
     repayment_method |-> _get_repayment_method(product),
     grace_principal_months |-> _get_grace_months(product),
     grace_interest_months |-> 0,
     fee_structure |-> _build_fee_structure(product),
     prepayment_info |-> _build_prepay_info(application),
     scenario_bump |-> 0,
     horizon_months |-> horizon_of(application, effective_tenor)]

\* sorted(ranked_recommendations, key=lambda item: -item[1]): a stable sort,
\* an entry goes behind every earlier entry whose total is at least its own
RECURSIVE insert_by_total(_, _)
insert_by_total(sorted, item) ==
    IF sorted = <<>> THEN <<item>>
    ELSE IF Head(sorted).total >= item.total
         THEN <<Head(sorted)>> \o insert_by_total(Tail(sorted), item)
         ELSE <<item>> \o sorted

RECURSIVE sorted_by_total(_, _)
sorted_by_total(ranked, sorted) ==
    IF ranked = <<>> THEN sorted
    ELSE sorted_by_total(Tail(ranked), insert_by_total(sorted, Head(ranked)))

TopLimit == 5

top_recommendations_unsorted(ranked) ==
    [i \in 1..Min(TopLimit, Len(ranked)) |-> ranked[i].rec]

top_recommendations_of(ranked) ==
    LET sorted == sorted_by_total(ranked, <<>>)
    IN  [i \in 1..Min(TopLimit, Len(sorted)) |-> sorted[i].rec]

\* the response with the scenarios of the returned recommendations only
RecommendationResponse_top_scenarios(top, rejected, scenario_data) ==
    [top |-> top, rejected |-> rejected,
     scenarios |-> [id \in {id \in DOMAIN scenario_data :
                               \E k \in 1..Len(top) : top[k].product_id = id}
                      |-> scenario_data[id]]]

RecommendationResponse(top, rejected, scenario_data) ==
    [top |-> top, rejected |-> rejected, scenarios |-> scenario_data]

NoResponse == RecommendationResponse(<<>>, <<>>, <<>>)

(***************************************************************************)
(* Inputs of the eligibility filter: every check can be switched on and    *)
(* off on the product, and the applications hit both sides of each bound.  *)
(***************************************************************************)
FilterProducts ==
    { [BlankProduct EXCEPT
          !.purpose = purpose,
          !.min_term_months = terms[1],
          !.max_term_months = terms[2],
          !.max_ltv_pct = max_ltv_pct,
          !.min_loan_amount = amounts[1],
          !.max_loan_amount = amounts[2],
          !.eligibility = [income_type_supported |-> income_types,
                           min_income_vnd |-> min_income],
          !.collateral = [collateral_types |-> collateral_types],
          !.bank = bank,
          !.constraints_json = [hard |-> [max_dsr |-> max_dsr, max_ltv |-> None,
                                         min_income_monthly |-> None]]] :
        purpose \in {"HOME_PURCHASE", "REFINANCE"},
        terms \in {<<0, 0>>, <<2, 3>>, <<4, 3>>, <<12, 360>>, <<300, 360>>,
                   <<0, 6>>, <<400, 0>>},
        max_ltv_pct \in {0, 70},
        amounts \in {<<0, 0>>, <<15000, 0>>, <<0, 15000>>},
        income_types \in {{}, {"SALARY"}},
        min_income \in {0, 150},
        collateral_types \in {{}, {"HOUSE"}},
        bank \in {NoBank, Bank({"HCM"})},
        max_dsr \in {None, 5000} }

FilterApplications ==
    { [BlankApplication EXCEPT
          !.purpose = request[1],
          !.tenor_months = request[2],
          !.repayment_strategy = request[3],
          !.loan_amount = amount[1],
          !.estimated_property_value_vnd = amount[2],
          !.income_type = profile[1],
          !.collaterals = profile[2],
          !.geo_location = profile[3],
          !.monthly_income_vnd = money[1],
          !.incomes = money[2],
          !.debts = money[3]] :
        request \in {<<"NEW_PURCHASE", 0, "">>, <<"NEW_PURCHASE", 0, "LONG_HOLD">>,
                     <<"NEW_PURCHASE", 0, "UNCERTAIN">>, <<"REFINANCE", 0, "EARLY_EXIT">>,
                     <<"REFINANCE", 1, "">>, <<"NEW_PURCHASE", 5, "">>,
                     <<"REFINANCE", 5, "UNCERTAIN">>},
        amount \in {<<12000, 25000>>, <<20000, 25000>>, <<20000, 0>>},
        profile \in {<<"", <<>>, "">>,
                     <<"SALARY", <<ApplicationCollateral("HOUSE", 25000)>>, "HCM">>,
                     <<"BUSINESS", <<ApplicationCollateral("LAND", 40000)>>, "HN">>},
        money \in {<<0, <<>>, <<>>>>,
                   <<100, <<>>, <<ApplicationDebt(80, 500)>>>>,
                   <<0, <<ApplicationIncome(120), ApplicationIncome(80)>>,
                     <<ApplicationDebt(80, 500)>>>>} }

NoFilterResult == <<FALSE, <<>>>>

(***************************************************************************)
(* Inputs of generate_recommendations: a catalog of NumProducts active     *)
(* products, each an instance of one of three product templates.           *)
(***************************************************************************)
NumProducts == 7
MaxDaysLater == 1
FirstDay == 100

\* a cheap product with a long promotional period and published SLA
ProductA ==
    [BlankProduct EXCEPT
        !.min_term_months = 1, !.max_term_months = MaxTenor,
        !.max_ltv_pct = 80,
        !.rate_fixed = 7, !.rate_fixed_months = 2, !.floating_margin = 2,
        !.sla_days_estimate = 15,
        !.constraints_json = [hard |-> [max_dsr |-> 6000, max_ltv |-> None,
                                       min_income_monthly |-> 150]]]

\* a dearer product of a bank with a fast process, fees and a prepayment penalty
ProductB ==
    [BlankProduct EXCEPT
        !.min_term_months = 1, !.max_term_months = MaxTenor,
        !.rate_fixed = 9, !.rate_fixed_months = 1, !.floating_margin = 4,
        !.rate_model = [NoRateModel EXCEPT
                           !.present = TRUE,
                           !.promo_options = <<PromoOption(10, 1)>>,
                           !.floating = [floating_margin_pct |-> 3,
                                         reference_rate_source_url |-> TRUE,
                                         caps_floors |-> FALSE],
                           !.reference_rate_base_pct = 6],
        !.fees_penalties = FeeStructure(1, 150, 180, 50, 10, 1,
                                        <<PrepaymentTier(1, 12, 3), PrepaymentTier(13, Inf, 1)>>),
        !.bank = [Bank({"HCM", "HN"}) EXCEPT
                     !.processing_sla = [present |-> TRUE, pre_approval_days |-> 1,
                                         appraisal_days |-> 3, final_approval_days |-> 2,
                                         disbursement_days |-> 1]],
        !.repayment = [repayment_method |-> "equal_principal",
                       grace_principal_months |-> 1]]

\* a product with a minimum income and a debt-service limit, its rate fixed
\* for 24 months
ProductC ==
    [BlankProduct EXCEPT
        !.min_term_months = 1, !.max_term_months = MaxTenor,
        !.rate_fixed = 8, !.rate_fixed_months = 24, !.floating_margin = 3,
        !.eligibility = [income_type_supported |-> {"SALARY"}, min_income_vnd |-> 150],
        !.constraints_json = [hard |-> [max_dsr |-> 5000, max_ltv |-> 7000,
                                       min_income_monthly |-> None]]]

\* product A as a crawler stored it: the first promo option of the JSONB
\* column carries "fixed_months": null
ProductD ==
    [ProductA EXCEPT
        !.rate_model = [NoRateModel EXCEPT
                           !.present = TRUE,
                           !.promo_options = <<PromoOption(7, None)>>]]

\* the templates a bank may have instantiated at position i of the catalog
ProductTemplates(i) ==
    CASE i = 4 -> {ProductA, ProductB, ProductD}
      [] i % 3 = 1 -> {ProductA, ProductB}
      [] i % 3 = 2 -> {ProductB, ProductC}
      [] OTHER -> {ProductC, ProductA}

Catalogs ==
    { [i \in 1..NumProducts |-> [catalog[i] EXCEPT !.id = i]] :
        catalog \in { c \in [1..NumProducts -> {ProductA, ProductB, ProductC, ProductD}] :
                        \A i \in 1..NumProducts : c[i] \in ProductTemplates(i) } }

RecoApplications ==
    { [BlankApplication EXCEPT
          !.loan_amount = 12000, !.tenor_months = MaxTenor,
          !.income_type = "SALARY", !.monthly_income_vnd = 200,
          !.proof_strength = "STRONG", !.estimated_property_value_vnd = 25000],
      [BlankApplication EXCEPT
          !.loan_amount = 20000, !.repayment_strategy = "EARLY_EXIT",
          !.expected_prepayment_month = 2,
          !.need_disbursement_by_date = FirstDay + 20,
          !.income_type = "SALARY", !.monthly_income_vnd = 100,
          !.debts = <<ApplicationDebt(30, 500)>>,
          !.geo_location = "HCM"],
      [BlankApplication EXCEPT
          !.loan_amount = 12000, !.repayment_strategy = "LONG_HOLD",
          !.need_disbursement_by_date = FirstDay + 5,
          !.incomes = <<ApplicationIncome(120), ApplicationIncome(80)>>,
          !.existing_debts_monthly_payment_vnd = 80,
          !.credit_flags = [has_late_payments |-> TRUE, cic_bad_debt |-> FALSE],
          !.collaterals = <<ApplicationCollateral("HOUSE", 25000)>>,
          !.preferences = [priority_cost_vs_stability |-> 80]],
      [BlankApplication EXCEPT
          !.loan_amount = 20000, !.repayment_strategy = "UNCERTAIN",
          !.tenor_months = 2, !.planned_hold_months = 1,
          !.proof_strength = "WEAK"] }

\* the recommendation service is idle while the engine is called directly
IdleReco ==
    /\ the_application = BlankApplication
    /\ products = <<>>
    /\ today = FirstDay
    /\ filter_result = NoFilterResult
    /\ the_effective_tenor = 0
    /\ idx = 1
    /\ ranked_recommendations = <<>>
    /\ rejected_products = <<>>
    /\ all_scenarios = <<>>
    /\ runs = 0
    /\ response = NoResponse
    /\ previous_response = NoResponse

(***************************************************************************)
(* Specification of the scheduler: a caller passes arguments, the          *)
(* function returns the schedule.                                          *)
(***************************************************************************)
InitSched ==
    /\ irr = NoIrr
    /\ fee_call = NoFeeCall
    /\ application_create = NoApplicationCreate
    /\ promo_end = NoPromoEnd
    /\ pc = "schedule_called"
    /\ inp \in ScheduleArgs
    /\ schedule = NoSchedule
    /\ scenarios = NoScenarios
    /\ IdleReco

GenerateSchedule ==
    /\ pc = "schedule_called"
    /\ schedule' = generate_amortization_schedule(inp)
    /\ pc' = "schedule_returned"
    /\ UNCHANGED <<inp, scenarios, reco_vars, call_vars>>

NextSched == GenerateSchedule

SpecSched == InitSched /\ [][NextSched]_vars

(***************************************************************************)
(* Specification of the stress runner                                      *)
(***************************************************************************)
StressArgs ==
    [principal : Principals,
     tenor_months : 1..MaxTenor,
     rate_structure : RateStructures,
     repayment_method : {"annuity", "equal_principal"},
     grace_principal_months : 0..(MaxTenor + 1),
     grace_interest_months : {0},
     fee_structure : FeeStructures,
     prepayment_info : PrepaymentInfos,
     scenario_bump : {0},
     horizon_months : {0, 1, MaxTenor}]

InitStress ==
    /\ irr = NoIrr
    /\ fee_call = NoFeeCall
    /\ application_create = NoApplicationCreate
    /\ promo_end = NoPromoEnd
    /\ pc = "stress_called"
    /\ inp \in StressArgs
    /\ schedule = NoSchedule
    /\ scenarios = NoScenarios
    /\ IdleReco

RunStressScenarios ==
    /\ pc = "stress_called"
    /\ scenarios' = stress_test_scenarios(inp)
    /\ pc' = "stress_returned"
    /\ UNCHANGED <<inp, schedule, reco_vars, call_vars>>

NextStress == RunStressScenarios

SpecStress == InitStress /\ [][NextStress]_vars

(***************************************************************************)
(* Specification of the IRR solver: calculate_irr one Newton iteration at  *)
(* a time.  The cashflow vectors have up to MaxTenor + 1 entries.          *)
(***************************************************************************)
CashflowAmounts == {-1000, 0, 500, 1000}

IrrCashflows ==
    UNION { [1..n -> CashflowAmounts] : n \in 0..(MaxTenor + 1) }

InitIrr ==
    /\ fee_call = NoFeeCall
    /\ application_create = NoApplicationCreate
    /\ promo_end = NoPromoEnd
    /\ pc = "irr_called"
    /\ irr \in { [NoIrr EXCEPT !.cashflows = c] : c \in IrrCashflows }
    /\ inp = NoArgs
    /\ schedule = NoSchedule
    /\ scenarios = NoScenarios
    /\ IdleReco

\* lines 414-418
IrrEnter ==
    /\ pc = "irr_called"
    /\ IF Len(irr.cashflows) < 2
       THEN /\ irr' = [irr EXCEPT !.result = 0]
            /\ pc' = "irr_returned"
       ELSE /\ irr' = [irr EXCEPT !.rate = InitialGuess]
            /\ pc' = "irr_loop"
    /\ UNCHANGED <<engine_vars, reco_vars, fee_call, application_create, promo_end>>

\* lines 420-429: a pass of the loop starts, npv and npv_derivative are summed
IrrEvaluate ==
    /\ pc = "irr_loop"
    /\ irr.iterations < MaxIterations
    /\ irr' = [irr EXCEPT !.npv = Npv(irr.cashflows, irr.rate, 0),
                          !.npv_derivative = NpvDerivative(irr.cashflows, irr.rate, 0)]
    /\ pc' = "irr_update"
    /\ UNCHANGED <<engine_vars, reco_vars, fee_call, application_create, promo_end>>

\* lines 431-443: the rest of the pass
IrrUpdate ==
    /\ pc = "irr_update"
    /\ LET npv_derivative == irr.npv_derivative
           new_rate == NewtonUpdate(irr.rate, irr.npv, irr.npv_derivative)
       IN  IF npv_derivative = 0
           THEN /\ irr' = [irr EXCEPT !.result = irr.rate]
                /\ pc' = "irr_returned"
           ELSE IF new_rate = irr.rate
           THEN /\ irr' = [irr EXCEPT !.result = new_rate,
                                      !.iterations = @ + 1]
                /\ pc' = "irr_returned"
           ELSE /\ irr' = [irr EXCEPT !.rate = new_rate, !.iterations = @ + 1]
                /\ pc' = "irr_loop"
    /\ UNCHANGED <<engine_vars, reco_vars, fee_call, application_create, promo_end>>

\* line 445: the iteration budget is used up
IrrExhausted ==
    /\ pc = "irr_loop"
    /\ irr.iterations = MaxIterations
    /\ irr' = [irr EXCEPT !.result = irr.rate]
    /\ pc' = "irr_returned"
    /\ UNCHANGED <<engine_vars, reco_vars, fee_call, application_create, promo_end>>

NextIrr ==
    \/ IrrEnter
    \/ IrrEvaluate
    \/ IrrUpdate
    \/ IrrExhausted

\* the interpreter keeps executing the function until it returns
SpecIrr == InitIrr /\ [][NextIrr]_vars /\ WF_vars(NextIrr)

(***************************************************************************)
(* Specification of the prepayment-fee lookup: a caller asks for the fee   *)
(* of paying off a balance in a month under a fee structure.               *)
(***************************************************************************)
TierSchedule(prepayment_schedule) == FeeStructure(0, 0, Inf, 0, 0, 0, prepayment_schedule)

\* tier.get("months_from", 0), tier.get("months_to") and tier.get("fee_pct", 0)
\* of a tier that carries none of the keys
TierWithoutKeys == PrepaymentTier(0, Inf, 0)

TierStructures ==
    { NoFeeStructure,
      TierSchedule(<<>>),
      TierSchedule(<<PrepaymentTier(1, 1, 3), PrepaymentTier(2, MaxTenor, 2),
                     PrepaymentTier(MaxTenor + 1, Inf, 1)>>),
      TierSchedule(<<PrepaymentTier(1, 1, 3), PrepaymentTier(3, MaxTenor, 2)>>),
      TierSchedule(<<PrepaymentTier(1, 2, 3), PrepaymentTier(2, Inf, 1)>>),
      TierSchedule(<<PrepaymentTier(2, 2, 3), TierWithoutKeys>>) }

FeeCalls ==
    [remaining_balance : {0} \cup Principals,
     month : 0..(MaxTenor + 2),
     fee_structure : TierStructures,
     result : {0}]

InitPrepayFee ==
    /\ pc = "prepay_fee_called"
    /\ fee_call \in FeeCalls
    /\ irr = NoIrr
    /\ application_create = NoApplicationCreate
    /\ promo_end = NoPromoEnd
    /\ inp = NoArgs
    /\ schedule = NoSchedule
    /\ scenarios = NoScenarios
    /\ IdleReco

CalculatePrepaymentFee ==
    /\ pc = "prepay_fee_called"
    /\ fee_call' = [fee_call EXCEPT !.result =
                       calculate_prepayment_fee(fee_call.remaining_balance,
                                                fee_call.month, fee_call.fee_structure)]
    /\ pc' = "prepay_fee_returned"
    /\ UNCHANGED <<engine_vars, reco_vars, irr, application_create, promo_end>>

NextPrepayFee == CalculatePrepaymentFee

SpecPrepayFee == InitPrepayFee /\ [][NextPrepayFee]_vars

(***************************************************************************)
(* Specification of the promo-end projection: _build_recommendation asks   *)
(* for the exit cost of one candidate.                                     *)
(***************************************************************************)
PromoEndArgs ==
    { a \in ScheduleArgs : /\ ~a.prepayment_info.present
                           /\ a.grace_interest_months = 0
                           /\ a.scenario_bump = 0 }

InitPromoEnd ==
    /\ pc = "promo_end_called"
    /\ inp \in PromoEndArgs
    /\ irr = NoIrr
    /\ fee_call = NoFeeCall
    /\ application_create = NoApplicationCreate
    /\ promo_end = NoPromoEnd
    /\ schedule = NoSchedule
    /\ scenarios = NoScenarios
    /\ IdleReco

CalculatePrepaymentAtPromoEnd ==
    /\ pc = "promo_end_called"
    /\ promo_end' = _calculate_prepayment_at_promo_end(inp)
    /\ pc' = "promo_end_returned"
    /\ UNCHANGED <<engine_vars, reco_vars, irr, fee_call, application_create>>

NextPromoEnd == CalculatePrepaymentAtPromoEnd

SpecPromoEnd == InitPromoEnd /\ [][NextPromoEnd]_vars

(***************************************************************************)
(* Specification of the engine on invalid numeric inputs: a caller passes  *)
(* a principal or a tenor that is zero or negative to either entry point.  *)
(***************************************************************************)
InvalidArgs ==
    { a \in [principal : {-12000, 0} \cup Principals,
             tenor_months : (-1)..MaxTenor,
             rate_structure : RateStructures,
             repayment_method : {"annuity", "equal_principal"},
             grace_principal_months : {0, 1},
             grace_interest_months : {0},
             fee_structure : FeeStructures,
             prepayment_info : {NoPrepaymentInfo, PrepaymentInfo(1, 0, FALSE)},
             scenario_bump : {0},
             horizon_months : {0, 1}] :
        a.principal <= 0 \/ a.tenor_months <= 0 }

InitInvalid ==
    /\ irr = NoIrr
    /\ fee_call = NoFeeCall
    /\ application_create = NoApplicationCreate
    /\ promo_end = NoPromoEnd
    /\ pc \in {"schedule_called", "stress_called"}
    /\ inp \in InvalidArgs
    /\ schedule = NoSchedule
    /\ scenarios = NoScenarios
    /\ IdleReco

NextInvalid ==
    \/ GenerateSchedule
    \/ RunStressScenarios

SpecInvalid == InitInvalid /\ [][NextInvalid]_vars

(***************************************************************************)
(* Specification of the eligibility filter: generate_recommendations       *)
(* screens one product for one application.                                *)
(***************************************************************************)
InitFilter ==
    /\ irr = NoIrr
    /\ fee_call = NoFeeCall
    /\ application_create = NoApplicationCreate
    /\ promo_end = NoPromoEnd
    /\ pc = "filter_called"
    /\ the_application \in FilterApplications
    /\ products \in {<<p>> : p \in FilterProducts}
    /\ today = FirstDay
    /\ filter_result = NoFilterResult
    /\ the_effective_tenor = 0
    /\ idx = 1
    /\ ranked_recommendations = <<>>
    /\ rejected_products = <<>>
    /\ all_scenarios = <<>>
    /\ runs = 0
    /\ response = NoResponse
    /\ previous_response = NoResponse
    /\ inp = NoArgs
    /\ schedule = NoSchedule
    /\ scenarios = NoScenarios

ApplyHardFilters ==
    /\ pc = "filter_called"
    /\ LET metrics == calculate_application_metrics(the_application)
           user_input == _extract_user_input(the_application, metrics)
           effective_tenor == effective_tenor_of(the_application, products[idx])
       IN  /\ the_effective_tenor' = effective_tenor
           /\ filter_result' = _apply_hard_filters_with_tenor(
                                    the_application, metrics, products[idx], user_input,
                                    effective_tenor)
    /\ pc' = "filter_returned"
    /\ UNCHANGED <<call_vars, engine_vars, the_application, products, today, run_vars, runs,
                   response, previous_response>>

NextFilter == ApplyHardFilters

SpecFilter == InitFilter /\ [][NextFilter]_vars

(***************************************************************************)
(* Specification of the recommendation service.  A request runs            *)
(* generate_recommendations on the stored application and the active       *)
(* catalog: the loop screens each product and, when it passes, runs the    *)
(* stress scenarios and scores it; after the last product the survivors    *)
(* are sorted and the response is returned.  Then days may pass and the    *)
(* same request is made again on the same rows.                            *)
(***************************************************************************)
InitReco ==
    /\ irr = NoIrr
    /\ fee_call = NoFeeCall
    /\ application_create = NoApplicationCreate
    /\ promo_end = NoPromoEnd
    /\ pc = "reco_loop"
    /\ the_application \in RecoApplications
    /\ products \in Catalogs
    /\ today = FirstDay
    /\ filter_result = NoFilterResult
    /\ the_effective_tenor = 0
    /\ idx = 1
    /\ ranked_recommendations = <<>>
    /\ rejected_products = <<>>
    /\ all_scenarios = <<>>
    /\ runs = 0
    /\ response = NoResponse
    /\ previous_response = NoResponse
    /\ inp = NoArgs
    /\ schedule = NoSchedule
    /\ scenarios = NoScenarios

\* lines 264-312: the filter rejects the product, or the arguments of
\* stress_test_scenarios are built
ScreenProduct ==
    /\ pc = "reco_loop"
    /\ idx <= Len(products)
    /\ LET product == products[idx]
           metrics == calculate_application_metrics(the_application)
           user_input == _extract_user_input(the_application, metrics)
           effective_tenor == effective_tenor_of(the_application, product)
           filtered == _apply_hard_filters_with_tenor(the_application, metrics, product,
                                                      user_input, effective_tenor)
       IN  /\ filter_result' = filtered
           /\ the_effective_tenor' = effective_tenor
           /\ IF ~filtered[1]
              THEN /\ rejected_products' =
                          Append(rejected_products,
                                 RejectedProduct(product.id, filtered[2],
                                                 primary_reason_of(filtered[2])))
                   /\ idx' = idx + 1
                   /\ UNCHANGED <<pc, inp>>
              ELSE /\ inp' = stress_arguments(the_application, product, effective_tenor)
                   /\ pc' = "reco_stress"
                   /\ UNCHANGED <<idx, rejected_products>>
    /\ UNCHANGED <<call_vars, schedule, scenarios, the_application, products, today,
                   ranked_recommendations, all_scenarios, runs, response,
                   previous_response>>

\* lines 303-312
StressProduct ==
    /\ pc = "reco_stress"
    /\ ~raises_type_error(inp)
    /\ scenarios' = stress_test_scenarios(inp)
    /\ pc' = "reco_score"
    /\ UNCHANGED <<inp, schedule, reco_vars, call_vars>>

\* lines 303-312 when the simulation raises: nothing in the loop catches the
\* exception, it leaves generate_recommendations and the request has no
\* response (the router turns it into HTTP 500)
StressRaises ==
    /\ pc = "reco_stress"
    /\ raises_type_error(inp)
    /\ response' = NoResponse
    /\ pc' = "reco_failed"
    /\ UNCHANGED <<call_vars, engine_vars, the_application, products, today, filter_result,
                   the_effective_tenor,
                   run_vars, runs, previous_response>>

\* lines 314-342
ScoreProduct ==
    /\ pc = "reco_score"
    /\ LET product == products[idx]
           metrics == calculate_application_metrics(the_application)
           user_input == _extract_user_input(the_application, metrics)
           base_scores == _calculate_multi_factor_score(product, the_application, metrics,
                                                        user_input, scenarios, today)
           scores == _calculate_strategy_adjusted_score(base_scores, the_application,
                                                        product, scenarios)
           rec == _build_recommendation(product, scores, scenarios, the_application,
                                        _get_optimal_tenor(the_application, product))
       IN  /\ ranked_recommendations' =
                  Append(ranked_recommendations, [rec |-> rec, total |-> scores.total])
           /\ all_scenarios' = [id \in (DOMAIN all_scenarios) \cup {product.id} |->
                                   IF id = product.id THEN scenarios ELSE all_scenarios[id]]
    /\ idx' = idx + 1
    /\ pc' = "reco_loop"
    /\ UNCHANGED <<call_vars, engine_vars, the_application, products, today, filter_result,
                   the_effective_tenor,
                   rejected_products, runs, response, previous_response>>

\* lines 344-384
ReturnRecommendations ==
    /\ pc = "reco_loop"
    /\ idx > Len(products)
    /\ response' = RecommendationResponse(top_recommendations_of(ranked_recommendations),
                                          rejected_products, all_scenarios)
    /\ runs' = runs + 1
    /\ pc' = "reco_returned"
    /\ UNCHANGED <<call_vars, engine_vars, the_application, products, today, filter_result,
                   the_effective_tenor,
                   run_vars, previous_response>>

\* the calendar advances between two requests
DayPasses ==
    /\ pc = "reco_returned"
    /\ runs = 1
    /\ today < FirstDay + MaxDaysLater
    /\ today' = today + 1
    /\ UNCHANGED <<call_vars, pc, engine_vars, the_application, products, filter_result,
                   the_effective_tenor,
                   run_vars, runs, response, previous_response>>

\* lines 238-262: the second request starts with fresh locals
RequestAgain ==
    /\ pc = "reco_returned"
    /\ runs = 1
    /\ previous_response' = response
    /\ idx' = 1
    /\ ranked_recommendations' = <<>>
    /\ rejected_products' = <<>>
    /\ all_scenarios' = <<>>
    /\ pc' = "reco_loop"
    /\ UNCHANGED <<call_vars, engine_vars, the_application, products, today, filter_result,
                   the_effective_tenor,
                   runs, response>>

NextReco ==
    \/ ScreenProduct
    \/ StressProduct
    \/ StressRaises
    \/ ScoreProduct
    \/ ReturnRecommendations
    \/ DayPasses
    \/ RequestAgain

SpecReco == InitReco /\ [][NextReco]_vars

(***************************************************************************)
(* Properties of generate_amortization_schedule                            *)
(***************************************************************************)
Returned == pc = "schedule_returned"
Entries == schedule.payments
NumEntries == Len(schedule.payments)
BalanceBefore(i) == IF i = 1 THEN inp.principal ELSE Entries[i - 1].remaining_balance
PrepaymentConfigured ==
    /\ inp.prepayment_info.present
    /\ inp.prepayment_info.prepayment_month \in 1..inp.tenor_months

\* C1: in every schedule the remaining balance is never negative and never
\* increases from one entry to the next, starting from at most the principal.
C1_BalanceNonIncreasing ==
    Returned =>
        \A i \in 1..NumEntries :
            /\ Entries[i].remaining_balance >= 0
            /\ Entries[i].remaining_balance <= BalanceBefore(i)

\* a schedule where the clamp on the principal portion acted: interest grace
\* through the last month of an annuity makes payment exceed the balance
C1_Witness ==
    /\ Returned
    /\ NumEntries >= 2
    /\ Entries[NumEntries].principal
           < Entries[NumEntries].payment - Entries[NumEntries].interest
    /\ Entries[NumEntries].remaining_balance = 0
    /\ Entries[1].remaining_balance < inp.principal

\* C2: the last entry of every schedule (principal > 0, tenor > 0, any grace
\* setting) has remaining_balance = 0.
C2_FinalBalanceZero ==
    (Returned /\ NumEntries > 0) => Entries[NumEntries].remaining_balance = 0

\* C3: a full prepayment at month k <= tenor gives exactly k entries; entry k
\* is the payoff entry (remaining_balance 0, principal = balance after k-1).
C3_PrepaymentTruncates ==
    (Returned /\ PrepaymentConfigured) =>
        LET k == inp.prepayment_info.prepayment_month
        IN  /\ NumEntries = k
            /\ Entries[k].month = k
            /\ Entries[k].remaining_balance = 0
            /\ Entries[k].principal = BalanceBefore(k)
            /\ \A i \in 1..NumEntries : Entries[i].month <= k

C3_Witness ==
    /\ Returned
    /\ PrepaymentConfigured
    /\ inp.prepayment_info.prepayment_month = 2
    /\ inp.tenor_months > 2
    /\ NumEntries = 2
    /\ Entries[2].principal = Entries[1].remaining_balance
    /\ Entries[2].principal < inp.principal

\* C4: one entry per month: the month fields are 1..n, n <= tenor, and
\* n = tenor when no prepayment month within 1..tenor is configured.
C4_OneEntryPerMonth ==
    Returned =>
        /\ \A i \in 1..NumEntries : Entries[i].month = i
        /\ NumEntries <= inp.tenor_months
        /\ ~PrepaymentConfigured => NumEntries = inp.tenor_months

C4_Witness ==
    /\ Returned
    /\ inp.prepayment_info.present
    /\ inp.prepayment_info.prepayment_month > inp.tenor_months
    /\ inp.tenor_months >= 2
    /\ NumEntries = inp.tenor_months
    /\ Entries[NumEntries].month = inp.tenor_months

\* C5: the rate applied to a month is the fixed rate while month <= fixed_months
\* and reference + margin + bump afterwards; the bump never reaches a month
\* inside the fixed period.
C5_RateForMonth ==
    Returned =>
        \A i \in 1..NumEntries :
            ~is_prepayment_month(inp, i) =>
                Entries[i].rate_applied =
                    IF i <= inp.rate_structure.fixed_months
                    THEN inp.rate_structure.fixed_rate_pct
                    ELSE inp.rate_structure.reference_rate_pct
                         + inp.rate_structure.floating_margin_pct
                         + inp.scenario_bump

C5_Witness ==
    /\ Returned
    /\ inp.scenario_bump = 2
    /\ inp.rate_structure.fixed_months = 1
    /\ NumEntries >= 2
    /\ ~inp.prepayment_info.present
    /\ Entries[1].rate_applied = 6
    /\ Entries[2].rate_applied = 10

(***************************************************************************)
(* Properties of stress_test_scenarios                                     *)
(***************************************************************************)
StressReturned == pc = "stress_returned"

\* C6: total_interest and apr of the three summaries are non-decreasing in
\* the bump: (+0%) <= (+2%) <= (+4%).
C6_StressMonotone ==
    StressReturned =>
        /\ scenarios["+0%"].total_interest <= scenarios["+2%"].total_interest
        /\ scenarios["+2%"].total_interest <= scenarios["+4%"].total_interest
        /\ scenarios["+0%"].apr <= scenarios["+2%"].apr
        /\ scenarios["+2%"].apr <= scenarios["+4%"].apr

(***************************************************************************)
(* Properties of the eligibility filter                                    *)
(***************************************************************************)
FilterReturned == pc = "filter_returned"
Passes == filter_result[1]
Reasons == filter_result[2]
Candidate == products[1]
Metrics == calculate_application_metrics(the_application)
EffectiveTenor ==
    IF the_application.tenor_months # 0 THEN the_application.tenor_months
    ELSE _get_optimal_tenor(the_application, Candidate)

CheckOrder ==
    <<"PURPOSE_NOT_SUPPORTED", "TENOR_TOO_SHORT", "TENOR_TOO_LONG", "LTV_EXCEEDS_MAX",
      "LOAN_AMOUNT_TOO_LOW", "LOAN_AMOUNT_TOO_HIGH", "INCOME_TYPE_NOT_SUPPORTED",
      "INCOME_BELOW_MIN", "COLLATERAL_TYPE_NOT_ALLOWED", "GEO_NOT_SUPPORTED",
      "DSR_EXCEEDS_MAX">>

\* a check fails when the product sets the limit, the application carries the
\* datum, and the datum is on the wrong side of the limit
CheckFails(code) ==
    CASE code = "PURPOSE_NOT_SUPPORTED" ->
            /\ the_application.purpose # Candidate.purpose
            /\ ~(the_application.purpose = "NEW_PURCHASE" /\ Candidate.purpose = "HOME_PURCHASE")
      [] code = "TENOR_TOO_SHORT" ->
            Candidate.min_term_months > 0 /\ EffectiveTenor < Candidate.min_term_months
      [] code = "TENOR_TOO_LONG" ->
            Candidate.max_term_months > 0 /\ EffectiveTenor > Candidate.max_term_months
      [] code = "LTV_EXCEEDS_MAX" ->
            /\ Candidate.max_ltv_pct > 0
            /\ Metrics.property_value > 0
            /\ 100 * the_application.loan_amount > Candidate.max_ltv_pct * Metrics.property_value
      [] code = "LOAN_AMOUNT_TOO_LOW" ->
            Candidate.min_loan_amount > 0
            /\ the_application.loan_amount < Candidate.min_loan_amount
      [] code = "LOAN_AMOUNT_TOO_HIGH" ->
            Candidate.max_loan_amount > 0
            /\ the_application.loan_amount > Candidate.max_loan_amount
      [] code = "INCOME_TYPE_NOT_SUPPORTED" ->
            /\ Candidate.eligibility.income_type_supported # {}
            /\ the_application.income_type # ""
            /\ the_application.income_type \notin Candidate.eligibility.income_type_supported
      [] code = "INCOME_BELOW_MIN" ->
            /\ Candidate.eligibility.min_income_vnd > 0
            /\ Metrics.total_income > 0
            /\ Metrics.total_income < Candidate.eligibility.min_income_vnd
      [] code = "COLLATERAL_TYPE_NOT_ALLOWED" ->
            /\ Candidate.collateral.collateral_types # {}
            /\ the_application.collaterals # <<>>
            /\ \A i \in 1..Len(the_application.collaterals) :
                  the_application.collaterals[i].collateral_type
                      \notin Candidate.collateral.collateral_types
      [] code = "GEO_NOT_SUPPORTED" ->
            /\ Candidate.bank.present
            /\ Candidate.bank.coverage_provinces # {}
            /\ the_application.geo_location # ""
            /\ the_application.geo_location \notin Candidate.bank.coverage_provinces
      [] code = "DSR_EXCEEDS_MAX" ->
            /\ Candidate.constraints_json.hard.max_dsr # None
            /\ Metrics.dsr # None
            /\ Metrics.dsr > Candidate.constraints_json.hard.max_dsr

NoEarlierCheckFails(code) ==
    \A i \in 1..Len(CheckOrder) :
        (\E j \in (i + 1)..Len(CheckOrder) : CheckOrder[j] = code) => ~CheckFails(CheckOrder[i])

\* C8: a candidate whose eligibility sets a minimum income M rejects every
\* applicant whose total monthly income is below M with INCOME_BELOW_MIN in
\* the reason list, as the primary reason when no earlier check fails.
C8_IncomeBelowMinRejected ==
    (/\ FilterReturned
     /\ Candidate.eligibility.min_income_vnd > 0
     /\ Metrics.total_income < Candidate.eligibility.min_income_vnd)
    => /\ ~Passes
       /\ \E i \in 1..Len(Reasons) : Reasons[i] = "INCOME_BELOW_MIN"
       /\ NoEarlierCheckFails("INCOME_BELOW_MIN")
              => primary_reason_of(Reasons) = "INCOME_BELOW_MIN"

(***************************************************************************)
(* Properties of generate_recommendations                                  *)
(***************************************************************************)
RecoReturned == pc = "reco_returned"
Top == response.top
Rejected == response.rejected
Survives(product) ==
    LET metrics == calculate_application_metrics(the_application)
    IN  _apply_hard_filters_with_tenor(the_application, metrics, product,
                                       _extract_user_input(the_application, metrics),
                                       effective_tenor_of(the_application, product))[1]
SurvivorIds == {products[i].id : i \in {j \in 1..Len(products) : Survives(products[j])}}
TopIds == {Top[k].product_id : k \in 1..Len(Top)}
RejectedIds == {Rejected[k].product_id : k \in 1..Len(Rejected)}
TotalOf(id) ==
    LET k == CHOOSE j \in 1..Len(ranked_recommendations) :
                 ranked_recommendations[j].rec.product_id = id
    IN  ranked_recommendations[k].total

\* C9: generate_recommendations returns at most 5 recommendations, namely
\* the filter's survivors with the highest totals in non-increasing order of
\* total; the other survivors are dropped and are not in the rejected list,
\* which holds exactly the candidates that failed the filter.
C9_TopFiveOfSurvivors ==
    RecoReturned =>
        /\ Len(Top) <= 5
        /\ Len(Top) = Min(5, Cardinality(SurvivorIds))
        /\ Cardinality(TopIds) = Len(Top)
        /\ TopIds \subseteq SurvivorIds
        /\ \A k \in 1..(Len(Top) - 1) :
              TotalOf(Top[k].product_id) >= TotalOf(Top[k + 1].product_id)
        /\ \A s \in SurvivorIds \ TopIds : \A t \in TopIds : TotalOf(s) <= TotalOf(t)
        /\ RejectedIds = {products[i].id : i \in 1..Len(products)} \ SurvivorIds
        /\ Cardinality(RejectedIds) = Len(Rejected)
        /\ \A k \in 1..Len(Rejected) : Rejected[k].reasons # <<>>

\* more than five survivors and a rejected candidate: the sort moved a later
\* product with a higher total ahead of an earlier one, and a survivor was
\* dropped
C9_Witness ==
    /\ RecoReturned
    /\ Cardinality(SurvivorIds) > 5
    /\ Len(Top) = 5
    /\ Rejected # <<>>
    /\ \E k \in 1..4 : Top[k].product_id > Top[k + 1].product_id
    /\ TotalOf(Top[1].product_id) > TotalOf(Top[5].product_id)
    /\ SurvivorIds \ TopIds # {}

\* C10: two runs of generate_recommendations on the same application and
\* catalog rows, whenever they are executed, return the same ranked list with
\* the same scores and the same rejected candidates with the same reasons.
C10_Deterministic ==
    (pc = "reco_returned" /\ runs = 2) => response = previous_response

\* the candidates whose evaluation raises
FailingIds ==
    {products[i].id : i \in {j \in 1..Len(products) :
        /\ Survives(products[j])
        /\ _build_rate_structure(products[j]).fixed_months = None}}
RequestEnded == pc \in {"reco_returned", "reco_failed"}

\* C11: when the evaluation of one candidate fails unexpectedly, the run
\* still ends with a response, and every other candidate of the catalog has
\* been evaluated: it is in the rejected list or has its scenario results.
C11_FailureIsolated ==
    (RequestEnded /\ FailingIds # {}) =>
        /\ response # NoResponse
        /\ \A i \in 1..Len(products) :
              products[i].id \notin FailingIds =>
                  products[i].id \in RejectedIds \cup DOMAIN response.scenarios

(***************************************************************************)
(* Properties of the engine on invalid numeric inputs                      *)
(***************************************************************************)
InvalidInput == inp.principal <= 0 \/ inp.tenor_months <= 0
CostFields ==
    {"total_interest", "total_fees", "total_insurance", "total_cost_excluding_principal",
     "total_out_of_pocket", "apr", "monthly_payment_first_12m",
     "monthly_payment_post_promo"}

\* C12: for principal <= 0 or tenor <= 0, generate_amortization_schedule
\* returns the empty schedule with all totals 0, and every cost field of
\* every summary of stress_test_scenarios is 0, whatever the fee structure.
C12_InvalidInputsZeroed ==
    /\ (Returned /\ InvalidInput) => schedule = AmortizationSchedule(<<>>, 0, 0, 0, 0, 0)
    /\ (StressReturned /\ InvalidInput) =>
           \A name \in DOMAIN scenarios : \A f \in CostFields : scenarios[name][f] = 0

(***************************************************************************)
(* Properties of calculate_irr                                             *)
(***************************************************************************)
IrrReturned == pc = "irr_returned"
RateBounds == (-(RateScale \div 2))..RateScale
IrrStepInvariant ==
    /\ irr.iterations <= MaxIterations
    /\ (IrrReturned /\ Len(irr.cashflows) < 2) => irr.result = 0
    /\ irr.iterations >= 1 => irr.rate \in RateBounds
    /\ (/\ IrrReturned
        /\ Len(irr.cashflows) >= 2
        /\ \/ irr.iterations = MaxIterations
           \/ NpvDerivative(irr.cashflows, irr.rate, 0) = 0)
       => irr.result = irr.rate

\* C13: calculate_irr returns after at most 100 Newton iterations: it returns
\* 0 for fewer than two cashflows, every iterate after the first update lies
\* in [-0.5, 1.0], and on a vanishing derivative or an exhausted budget the
\* result is the last computed rate.
C13_IrrTerminates == []IrrStepInvariant /\ <>IrrReturned

\* a vector on which Newton's method does not settle: the budget of 100
\* iterations is used up and the last iterate is returned
C13_Witness ==
    /\ IrrReturned
    /\ irr.iterations = MaxIterations
    /\ irr.result = irr.rate
    /\ irr.result # InitialGuess
    /\ irr.result \in RateBounds

(***************************************************************************)
(* Properties of the equal-principal method and of grace periods           *)
(***************************************************************************)
EqualPrincipalNoPrepayment ==
    /\ Returned
    /\ inp.repayment_method = "equal_principal"
    /\ ~inp.prepayment_info.present
    /\ inp.grace_principal_months = 0
    /\ inp.grace_interest_months = 0
RateOfMonth(m) == get_rate_for_month(inp.rate_structure, m, inp.scenario_bump)
RateNeverRises ==
    /\ \A m \in 1..inp.tenor_months : RateOfMonth(m) >= 0
    /\ \A m \in 1..(inp.tenor_months - 1) : RateOfMonth(m + 1) <= RateOfMonth(m)
\* non-increasing up to one currency unit of rounding
PaymentsNonIncreasing ==
    \A i \in 1..(NumEntries - 1) : Entries[i + 1].payment <= Entries[i].payment + 1
PrincipalSumsToPrincipal == SumField(Entries, "principal") = inp.principal

\* C14 as stated: with equal_principal repayment and no prepayment the
\* monthly payments are non-increasing and the principal portions sum to the
\* principal, for any rate structure, also one that resets upward.
C14_AnyRateStructure ==
    EqualPrincipalNoPrepayment => (PaymentsNonIncreasing /\ PrincipalSumsToPrincipal)

\* C14 amended: the same, for rate structures whose rate is never negative
\* and never rises from one month to the next.
C14_EqualPrincipalNonIncreasing ==
    (EqualPrincipalNoPrepayment /\ RateNeverRises)
        => (PaymentsNonIncreasing /\ PrincipalSumsToPrincipal)

\* a three-month schedule whose rate resets downward: payments fall strictly
C14_Witness ==
    /\ EqualPrincipalNoPrepayment
    /\ RateNeverRises
    /\ NumEntries >= 3
    /\ Entries[1].rate_applied > Entries[NumEntries].rate_applied
    /\ \A i \in 1..(NumEntries - 1) : Entries[i + 1].payment < Entries[i].payment
    /\ Entries[1].principal + Entries[2].principal < inp.principal

GraceEntryShape(i) ==
    /\ Entries[i].principal = 0
    /\ Entries[i].payment = Entries[i].interest
    /\ Entries[i].interest > 0
    /\ Entries[i].is_grace_period
    /\ Entries[i].remaining_balance = BalanceBefore(i)
InPrincipalGrace(i) ==
    /\ i <= inp.grace_principal_months
    /\ BalanceBefore(i) > 0
    /\ RateOfMonth(i) > 0
FirstMonthAfterGrace ==
    (inp.grace_principal_months + 1 \in 1..NumEntries)
        => Entries[inp.grace_principal_months + 1].principal > 0

\* C15 as stated: every entry of a month m <= grace_principal_months with
\* positive balance and positive rate has principal 0, payment = interest,
\* interest > 0, the grace flag and an unchanged balance; the entry of month
\* grace_principal_months + 1, when it exists, has principal > 0.
C15_EveryGraceMonth ==
    Returned =>
        /\ \A i \in 1..NumEntries : InPrincipalGrace(i) => GraceEntryShape(i)
        /\ FirstMonthAfterGrace

\* C15 amended: the same for the grace months that are past the interest
\* grace (m > grace_interest_months) and are not the prepayment month.
C15_GraceMonths ==
    Returned =>
        /\ \A i \in 1..NumEntries :
              (/\ InPrincipalGrace(i)
               /\ i > inp.grace_interest_months
               /\ ~is_prepayment_month(inp, i)) => GraceEntryShape(i)
        /\ FirstMonthAfterGrace

\* two interest-only months, then the whole principal in the third
C15_Witness ==
    /\ Returned
    /\ inp.grace_principal_months = 2
    /\ inp.grace_interest_months = 0
    /\ NumEntries = 3
    /\ GraceEntryShape(1)
    /\ GraceEntryShape(2)
    /\ Entries[2].remaining_balance = inp.principal
    /\ Entries[3].principal = inp.principal
    /\ ~Entries[3].is_grace_period

(***************************************************************************)
(* Properties of calculate_prepayment_fee                                  *)
(***************************************************************************)
FeeReturned == pc = "prepay_fee_returned"
Tiers == fee_call.fee_structure.prepayment_schedule
MatchingTiers ==
    {i \in 1..Len(Tiers) :
        Tiers[i].months_from <= fee_call.month /\ fee_call.month <= Tiers[i].months_to}
TiersTile ==
    /\ Tiers # <<>>
    /\ Tiers[1].months_from = 1
    /\ Tiers[Len(Tiers)].months_to = Inf
    /\ \A i \in 1..(Len(Tiers) - 1) : Tiers[i + 1].months_from = Tiers[i].months_to + 1

\* C16: calculate_prepayment_fee returns balance x fee_pct (a percentage) of
\* the tier whose range contains the month, and 0 when there is no fee
\* structure, no tier list or no tier containing the month; when the tiers
\* tile the month axis exactly one tier contains a month >= 1.
C16_PrepaymentFeeTier ==
    FeeReturned =>
        /\ (~fee_call.fee_structure.present \/ MatchingTiers = {}) => fee_call.result = 0
        /\ (fee_call.fee_structure.present /\ MatchingTiers # {}) =>
               \E i \in MatchingTiers :
                   /\ \A j \in MatchingTiers : i <= j
                   /\ fee_call.result * 100 = fee_call.remaining_balance * Tiers[i].fee_pct
        /\ (fee_call.fee_structure.present /\ TiersTile /\ fee_call.month >= 1) =>
               Cardinality(MatchingTiers) = 1

\* the last month of the middle tier of a tiling schedule: that tier's fee
C16_Witness ==
    /\ FeeReturned
    /\ TiersTile
    /\ Len(Tiers) = 3
    /\ fee_call.month = Tiers[2].months_to
    /\ MatchingTiers = {2}
    /\ fee_call.remaining_balance = 12000
    /\ fee_call.result = 240

(***************************************************************************)
(* Properties of the scores                                                *)
(***************************************************************************)
Scored == {ranked_recommendations[k].rec : k \in 1..Len(ranked_recommendations)}
ScoreRange == 0..Points(100)

\* C17: for every scored candidate each of the five factor scores (cost,
\* stability, approval, speed, penalties) lies in [0, 100], and the reported
\* fit_score lies in [0, 100].
C17_ScoresInRange ==
    RecoReturned =>
        \A rec \in Scored :
            /\ rec.cost_score \in ScoreRange
            /\ rec.stability_score \in ScoreRange
            /\ rec.approval_score \in ScoreRange
            /\ rec.speed_score \in ScoreRange
            /\ rec.penalties_score \in ScoreRange
            /\ rec.fit_score \in 0..100

Strategy == the_application.repayment_strategy
Weights == strategy_weights(Strategy)
ProductOf(id) == products[CHOOSE i \in 1..Len(products) : products[i].id = id]
WeightedSum(rec) ==
    (Weights.cost * rec.cost_score + Weights.stability * rec.stability_score
     + Weights.approval * rec.approval_score + Weights.speed * rec.speed_score
     + Weights.penalties * rec.penalties_score) \div 100
RecomputedPenalties(rec) ==
    _calculate_early_exit_penalties_score(ProductOf(rec.product_id), the_application,
                                          response.scenarios[rec.product_id]["+0%"])
RecomputedStability(rec) ==
    _calculate_long_hold_stability_score(ProductOf(rec.product_id),
                                         response.scenarios[rec.product_id]["+0%"],
                                         response.scenarios[rec.product_id]["+4%"])

\* C18: the total of every scored candidate is the weighted sum of its five
\* reported factor scores under the weights of the borrower's strategy:
\* cost .35, stability .25, approval .20, speed .10, penalties .10 when no
\* strategy is set, penalties .20 under UNCERTAIN, penalties .30 under
\* EARLY_EXIT, stability .35 under LONG_HOLD; the weights sum to 1; the
\* reported penalties (EARLY_EXIT) or stability (LONG_HOLD) score is the
\* recomputed one.
C18_WeightedTotal ==
    RecoReturned =>
        /\ Weights.cost + Weights.stability + Weights.approval + Weights.speed
               + Weights.penalties = 100
        /\ Strategy = "" => Weights = [cost |-> 35, stability |-> 25, approval |-> 20,
                                      speed |-> 10, penalties |-> 10]
        /\ Strategy = "UNCERTAIN" => Weights.penalties = 20
        /\ Strategy = "EARLY_EXIT" => Weights.penalties = 30
        /\ Strategy = "LONG_HOLD" => Weights.stability = 35
        /\ \A k \in 1..Len(ranked_recommendations) :
              LET rec == ranked_recommendations[k].rec
              IN  /\ ranked_recommendations[k].total = WeightedSum(rec)
                  /\ Strategy = "EARLY_EXIT" => rec.penalties_score = RecomputedPenalties(rec)
                  /\ Strategy = "LONG_HOLD" => rec.stability_score = RecomputedStability(rec)

\* an EARLY_EXIT run in which the recomputed penalties score of a candidate
\* differs from the base penalties score and carries weight .30 in its total
C18_Witness ==
    /\ RecoReturned
    /\ Strategy = "EARLY_EXIT"
    /\ \E k \in 1..Len(ranked_recommendations) :
          LET rec == ranked_recommendations[k].rec
          IN  /\ rec.penalties_score = RecomputedPenalties(rec)
              /\ rec.penalties_score #
                     _calculate_penalties_score(ProductOf(rec.product_id), the_application,
                                                response.scenarios[rec.product_id]["+0%"])
              /\ ranked_recommendations[k].total = WeightedSum(rec)
              /\ rec.penalties_score > 0

(***************************************************************************)
(* Specification of an application's creation followed by the screening    *)
(* of one product: POST /applications, then generate_recommendations'      *)
(* filter on the stored row.                                               *)
(***************************************************************************)
ApplicationCreates ==
    { [NoApplicationCreate EXCEPT
          !.purpose = "NEW_PURCHASE",
          !.loan_amount = 12000,
          !.estimated_property_value_vnd = 25000,
          !.repayment_strategy = strategy,
          !.income_type = income_type,
          !.monthly_income_vnd = monthly_income_vnd,
          !.proof_strength = proof_strength,
          !.property_type = property_type,
          !.legal_status = legal_status] :
        strategy \in {"", "UNCERTAIN"},
        income_type \in {"", "SALARY", "BUSINESS", "salary", "FREELANCE"},
        monthly_income_vnd \in {100, 200},
        proof_strength \in {"", "STRONG", "VERIFIED"},
        property_type \in {"", "HOUSE", "VILLA"},
        legal_status \in {"", "CLEAR", "RED_BOOK"} }

CreateProducts ==
    { [BlankProduct EXCEPT
          !.purpose = "HOME_PURCHASE",
          !.eligibility = [income_type_supported |-> income_types,
                           min_income_vnd |-> min_income]] :
        income_types \in {{}, {"SALARY"}, {"SALARY", "BUSINESS"}},
        min_income \in {0, 150} }

InitCreate ==
    /\ irr = NoIrr
    /\ fee_call = NoFeeCall
    /\ application_create \in ApplicationCreates
    /\ promo_end = NoPromoEnd
    /\ pc = "create_called"
    /\ the_application = BlankApplication
    /\ products \in {<<p>> : p \in CreateProducts}
    /\ today = FirstDay
    /\ filter_result = NoFilterResult
    /\ the_effective_tenor = 0
    /\ idx = 1
    /\ ranked_recommendations = <<>>
    /\ rejected_products = <<>>
    /\ all_scenarios = <<>>
    /\ runs = 0
    /\ response = NoResponse
    /\ previous_response = NoResponse
    /\ inp = NoArgs
    /\ schedule = NoSchedule
    /\ scenarios = NoScenarios

CreateApplication ==
    /\ pc = "create_called"
    /\ the_application' = create_application(application_create)
    /\ pc' = "filter_called"
    /\ UNCHANGED <<call_vars, engine_vars, products, today, filter_result,
                   the_effective_tenor, run_vars, runs, response, previous_response>>

NextCreate == CreateApplication \/ ApplyHardFilters

SpecCreate == InitCreate /\ [][NextCreate]_vars

(***************************************************************************)
(* Properties of the effective tenor                                       *)
(***************************************************************************)
TermsSet ==
    /\ Candidate.min_term_months > 0
    /\ Candidate.max_term_months >= Candidate.min_term_months
HasReason(code) == \E i \in 1..Len(Reasons) : Reasons[i] = code

\* C19: the effective tenor is the borrower's explicit tenor when given;
\* otherwise the product's maximum term under UNCERTAIN or EARLY_EXIT and
\* 240 months clamped into [product minimum, product maximum] under
\* LONG_HOLD; the tenor checks of the filter are made on that tenor.
C19_EffectiveTenor ==
    FilterReturned =>
        /\ the_application.tenor_months # 0
               => the_effective_tenor = the_application.tenor_months
        /\ (/\ the_application.tenor_months = 0
            /\ the_application.repayment_strategy \in {"UNCERTAIN", "EARLY_EXIT"}
            /\ Candidate.max_term_months > 0)
           => the_effective_tenor = Candidate.max_term_months
        /\ (/\ the_application.tenor_months = 0
            /\ the_application.repayment_strategy = "LONG_HOLD"
            /\ TermsSet)
           => the_effective_tenor
                  = Clamp(Candidate.min_term_months, Candidate.max_term_months, 240)
        /\ HasReason("TENOR_TOO_SHORT")
               <=> (Candidate.min_term_months > 0
                    /\ the_effective_tenor < Candidate.min_term_months)
        /\ HasReason("TENOR_TOO_LONG")
               <=> (Candidate.max_term_months > 0
                    /\ the_effective_tenor > Candidate.max_term_months)

\* a LONG_HOLD borrower without a tenor and a product whose shortest term
\* is above 240 months: the product's minimum is used and passes the check
C19_Witness ==
    /\ FilterReturned
    /\ the_application.tenor_months = 0
    /\ the_application.repayment_strategy = "LONG_HOLD"
    /\ Candidate.min_term_months > 240
    /\ the_effective_tenor = Candidate.min_term_months
    /\ ~HasReason("TENOR_TOO_SHORT")
    /\ ~HasReason("TENOR_TOO_LONG")

(***************************************************************************)
(* Properties of unrecognized enum values                                  *)
(***************************************************************************)
Created == pc \in {"filter_called", "filter_returned"}

\* the stored field is the payload's value when it is a member of the enum
\* and absent otherwise
StoredAs(members, field) ==
    the_application[field]
        = (IF application_create[field] \in members THEN application_create[field] ELSE "")

Unrecognized(members, field) ==
    application_create[field] # "" /\ application_create[field] \notin members

\* C20: an application whose income type, proof strength, property type or
\* legal status carries an unrecognized value is created with that field
\* absent (the other fields stored as given), and the filter's income type
\* check is skipped for it: no INCOME_TYPE_NOT_SUPPORTED, whatever the
\* product supports.
C20_UnrecognizedEnumAbsent ==
    /\ Created =>
           /\ StoredAs(IncomeType, "income_type")
           /\ StoredAs(ProofStrength, "proof_strength")
           /\ StoredAs(CollateralType, "property_type")
           /\ StoredAs(LegalStatus, "legal_status")
           /\ the_application.monthly_income_vnd = application_create.monthly_income_vnd
           /\ the_application.loan_amount = application_create.loan_amount
    /\ (FilterReturned /\ Unrecognized(IncomeType, "income_type"))
           => ~HasReason("INCOME_TYPE_NOT_SUPPORTED")

\* every enum-valued field of the payload is unrecognized, the product
\* supports SALARY only, and the product still passes the filter
C20_Witness ==
    /\ FilterReturned
    /\ Unrecognized(IncomeType, "income_type")
    /\ Unrecognized(ProofStrength, "proof_strength")
    /\ Unrecognized(CollateralType, "property_type")
    /\ Unrecognized(LegalStatus, "legal_status")
    /\ the_application.income_type = ""
    /\ the_application.legal_status = ""
    /\ Candidate.eligibility.income_type_supported = {"SALARY"}
    /\ filter_result[1]

(***************************************************************************)
(* Properties of the legacy hard constraints                               *)
(***************************************************************************)
HardMinIncome(product) == product.constraints_json.hard.min_income_monthly
MinIncomeCodes == {"MIN_INCOME", "INCOME_BELOW_MIN"}

\* C21: a product whose constraints_json.hard sets min_income_monthly above
\* the applicant's monthly income is in the rejected list of the run, with a
\* reason code that names the minimum-income constraint.
C21_HardMinIncomeRejected ==
    RecoReturned =>
        \A i \in 1..Len(products) :
            (/\ HardMinIncome(products[i]) # None
             /\ Metrics.total_income < HardMinIncome(products[i]))
            => \E k \in 1..Len(Rejected) :
                   /\ Rejected[k].product_id = products[i].id
                   /\ Rejected[k].reason_code \in MinIncomeCodes

(***************************************************************************)
(* Properties of the comparison horizon                                    *)
(***************************************************************************)
Stressed == pc = "reco_score"
ScenarioEntries(i) ==
    generate_amortization_schedule(
        [inp EXCEPT !.scenario_bump = ScenarioBumps[i], !.grace_interest_months = 0]).payments

\* the sum of field f over the first n entries whose month is within the horizon
RECURSIVE SumWithin(_, _, _, _)
SumWithin(entries, n, horizon, f) ==
    IF n = 0 THEN 0
    ELSE SumWithin(entries, n - 1, horizon, f)
         + (IF entries[n].month <= horizon THEN entries[n][f] ELSE 0)

UpfrontFees ==
    IF inp.fee_structure.present THEN _calculate_upfront_fees(inp.principal, inp.fee_structure)
    ELSE 0

PlannedHoldOrTenor ==
    IF the_application.planned_hold_months # 0 THEN the_application.planned_hold_months
    ELSE the_effective_tenor

TotalsWithinHorizon(upfront) ==
    \A i \in 1..3 :
        LET entries == ScenarioEntries(i)
            summary == scenarios[ScenarioNames[i]]
        IN  /\ summary.total_interest
                   = SumWithin(entries, Len(entries), inp.horizon_months, "interest")
            /\ summary.total_fees
                   = SumWithin(entries, Len(entries), inp.horizon_months, "fees") + upfront
            /\ summary.total_insurance
                   = SumWithin(entries, Len(entries), inp.horizon_months, "insurance")

\* C22 as stated: for every strategy the horizon handed to the stress runner
\* is the planned hold period when set and the effective tenor otherwise,
\* and each scenario's interest, fee and insurance totals are exactly the
\* sums over the entries with month <= horizon.
C22_HorizonEveryStrategy ==
    Stressed =>
        /\ inp.horizon_months = PlannedHoldOrTenor
        /\ TotalsWithinHorizon(0)

\* C22: the horizon handed to the stress runner is the planned hold period
\* when set; otherwise 36 months under EARLY_EXIT and the effective tenor
\* under every other strategy.  Each scenario's interest and insurance totals
\* are the sums over the entries with month <= horizon, and its fee total is
\* that sum plus the upfront fees.
C22_HorizonTotals ==
    Stressed =>
        /\ inp.tenor_months = the_effective_tenor
        /\ inp.horizon_months
               = (IF the_application.planned_hold_months = 0
                     /\ the_application.repayment_strategy = "EARLY_EXIT"
                  THEN 36 ELSE PlannedHoldOrTenor)
        /\ TotalsWithinHorizon(UpfrontFees)

\* a planned hold shorter than the schedule: the totals leave out the
\* interest of the months after it
C22_Witness ==
    /\ Stressed
    /\ the_application.planned_hold_months # 0
    /\ inp.horizon_months = the_application.planned_hold_months
    /\ inp.horizon_months < Len(ScenarioEntries(1))
    /\ scenarios["+0%"].total_interest > 0
    /\ scenarios["+0%"].total_interest
           < SumField(ScenarioEntries(1), "interest")

(***************************************************************************)
(* Properties of the promo-end projection                                  *)
(***************************************************************************)
PromoEndReturned == pc = "promo_end_returned"
FixedMonths == inp.rate_structure.fixed_months
\* the schedule with a full prepayment at the month the fixed period ends
PromoEndSchedule ==
    generate_amortization_schedule(
        [inp EXCEPT !.prepayment_info = PrepaymentInfo(FixedMonths, 0, FALSE)])
TerminalEntry == PromoEndSchedule.payments[Len(PromoEndSchedule.payments)]

\* C23: the projection is absent when fixed_months <= 0; otherwise its
\* remaining_principal and prepayment_fee are the principal and the fee of
\* the terminal entry of the schedule with a full prepayment at month
\* fixed_months, and its interest and fees paid are the sums over that
\* schedule, the fees with the upfront fees added.
C23_PromoEndAgreesWithScheduler ==
    PromoEndReturned =>
        /\ FixedMonths <= 0 => ~promo_end.present
        /\ (FixedMonths > 0 /\ FixedMonths <= inp.tenor_months) =>
               /\ promo_end.present
               /\ promo_end.remaining_principal = TerminalEntry.principal
               /\ promo_end.prepayment_fee = TerminalEntry.fees
               /\ promo_end.total_interest_paid
                      = SumField(PromoEndSchedule.payments, "interest")
               /\ promo_end.total_fees_paid
                      = SumField(PromoEndSchedule.payments, "fees")
                        + _calculate_upfront_fees(inp.principal, inp.fee_structure)

(***************************************************************************)
(* Properties of partial prepayments                                       *)
(***************************************************************************)
PartialPrepayment ==
    /\ Returned
    /\ inp.prepayment_info.present
    /\ inp.prepayment_info.is_partial
FullPayoffSchedule ==
    generate_amortization_schedule(
        [inp EXCEPT !.prepayment_info =
                        PrepaymentInfo(inp.prepayment_info.prepayment_month, 0, FALSE)])

\* C24: a prepayment configured as partial, with any amount, gives exactly
\* the schedule of a full payoff at the same month: the schedule stops at
\* that month with remaining_balance 0, and the fee is charged on the whole
\* balance of that month.
C24_PartialIsFullPayoff ==
    PartialPrepayment =>
        LET k == inp.prepayment_info.prepayment_month
        IN  /\ schedule = FullPayoffSchedule
            /\ (NumEntries >= k) =>
                   /\ NumEntries = k
                   /\ Entries[k].remaining_balance = 0
                   /\ Entries[k].principal = BalanceBefore(k)
                   /\ Entries[k].fees
                          = calculate_prepayment_fee(BalanceBefore(k), k, inp.fee_structure)

\* a partial prepayment of less than the balance, with a fee tier in force:
\* the whole balance is paid off and the fee is on the whole balance
C24_Witness ==
    /\ PartialPrepayment
    /\ NumEntries = inp.prepayment_info.prepayment_month
    /\ inp.prepayment_info.prepayment_amount_vnd
           < Entries[NumEntries].principal
    /\ Entries[NumEntries].remaining_balance = 0
    /\ Entries[NumEntries].fees > 0
    /\ NumEntries > 1

(***************************************************************************)
(* Properties of the running totals                                        *)
(***************************************************************************)
\* the sum of field f over the entries 1..n
RECURSIVE EntrySum(_, _)
EntrySum(n, f) == IF n = 0 THEN 0 ELSE EntrySum(n - 1, f) + Entries[n][f]

UpfrontFeesOfSchedule ==
    IF inp.fee_structure.present
    THEN _calculate_upfront_fees(inp.principal, inp.fee_structure) ELSE 0

\* C25: the totals of a schedule are the sums of its entries: interest,
\* principal, payments and insurance; total_fees is the upfront fees plus
\* the sum of the entries' fees; and total_principal is the original
\* principal whenever the last entry leaves a balance of 0.
C25_TotalsMatchEntries ==
    (Returned /\ NumEntries > 0) =>
        /\ schedule.total_interest = EntrySum(NumEntries, "interest")
        /\ schedule.total_principal = EntrySum(NumEntries, "principal")
        /\ schedule.total_payments = EntrySum(NumEntries, "payment")
        /\ schedule.total_insurance = EntrySum(NumEntries, "insurance")
        /\ schedule.total_fees = UpfrontFeesOfSchedule + EntrySum(NumEntries, "fees")
        /\ Entries[NumEntries].remaining_balance = 0
               => schedule.total_principal = inp.principal

\* a schedule with upfront and monthly fees, insurance and a prepayment fee
\* in its last entry, paid off in full
C25_Witness ==
    /\ Returned
    /\ NumEntries > 1
    /\ UpfrontFeesOfSchedule > 0
    /\ Entries[1].fees > 0
    /\ Entries[1].insurance > 0
    /\ PrepaymentConfigured
    /\ Entries[NumEntries].fees > 0
    /\ Entries[NumEntries].remaining_balance = 0
    /\ schedule.total_principal = inp.principal
    /\ schedule.total_fees > UpfrontFeesOfSchedule + Entries[1].fees

(***************************************************************************)
(* Properties of rate_applied                                              *)
(***************************************************************************)
\* C26: every entry of a schedule, the terminal prepayment entry included,
\* carries rate_applied = get_rate_for_month(entry.month, bump); a prepayment
\* in the first floating month records the floating rate.
C26_RateAppliedEveryEntry ==
    Returned =>
        \A i \in 1..NumEntries :
            Entries[i].rate_applied
                = get_rate_for_month(inp.rate_structure, Entries[i].month, inp.scenario_bump)

(***************************************************************************)
(* Properties of the prepayment fee in the stress aggregates               *)
(***************************************************************************)
\* the schedule of scenario i ends in the payoff entry of the prepayment month
PrepaymentOccurs(i) ==
    LET entries == ScenarioEntries(i)
    IN  /\ inp.prepayment_info.present
        /\ Len(entries) = inp.prepayment_info.prepayment_month
        /\ entries[Len(entries)].remaining_balance = 0
        /\ entries[Len(entries)].interest = 0

\* the sum of the payments of the regular entries within the horizon
RECURSIVE RegularPaymentsWithin(_, _, _)
RegularPaymentsWithin(entries, n, horizon) ==
    IF n = 0 THEN 0
    ELSE RegularPaymentsWithin(entries, n - 1, horizon)
         + (IF entries[n].month <= horizon
               /\ entries[n].month # inp.prepayment_info.prepayment_month
            THEN entries[n].payment ELSE 0)

HorizonOfStress == IF inp.horizon_months # 0 THEN inp.horizon_months ELSE inp.tenor_months

\* C27: when a prepayment occurs its fee is counted exactly once in each
\* aggregate of a scenario: the final outflow of the APR cashflow vector is
\* the balance paid off plus one prepayment fee, and total_out_of_pocket is
\* upfront fees + regular payments + the balance paid off + insurance + one
\* prepayment fee.
C27_PrepaymentFeeOnce ==
    StressReturned =>
        \A i \in 1..3 :
            PrepaymentOccurs(i) =>
                LET entries == ScenarioEntries(i)
                    last == entries[Len(entries)]
                    summary == scenarios[ScenarioNames[i]]
                    fee == summary.prepayment_fee
                    cashflows == Cashflows(inp.principal, entries, UpfrontFees, fee)
                IN  /\ fee = last.fees
                    /\ -cashflows[Len(cashflows)] = last.principal + fee
                    /\ summary.total_out_of_pocket
                           = UpfrontFees
                             + RegularPaymentsWithin(entries, Len(entries), HorizonOfStress)
                             + (IF last.month <= HorizonOfStress THEN last.principal ELSE 0)
                             + summary.total_insurance
                             + fee

(***************************************************************************)
(* Properties of the payment split                                         *)
(***************************************************************************)
\* C28: every non-prepayment entry of a schedule has payment = principal +
\* interest, for both repayment methods and every grace_principal_months and
\* grace_interest_months (interest grace through the final month included).
C28_PaymentIsPrincipalPlusInterest ==
    Returned =>
        \A i \in 1..NumEntries :
            ~is_prepayment_month(inp, Entries[i].month) =>
                Entries[i].payment = Entries[i].principal + Entries[i].interest

(***************************************************************************)
(* Properties of the strategy-derived tenor                                *)
(***************************************************************************)
\* minimum <= maximum, either bound possibly unset
ConsistentTerms ==
    \/ Candidate.min_term_months = 0
    \/ Candidate.max_term_months = 0
    \/ Candidate.min_term_months <= Candidate.max_term_months

\* C29: when the borrower gives no explicit tenor, the strategy-derived
\* effective tenor causes no TENOR_TOO_SHORT and no TENOR_TOO_LONG rejection
\* for a product whose term bounds are consistent.
C29_DerivedTenorWithinTerms ==
    (FilterReturned /\ the_application.tenor_months = 0 /\ ConsistentTerms) =>
        /\ ~HasReason("TENOR_TOO_SHORT")
        /\ ~HasReason("TENOR_TOO_LONG")

(***************************************************************************)
(* Properties of the partition of the catalog                              *)
(***************************************************************************)
ProductIds == {products[i].id : i \in 1..Len(products)}
ScoredIds ==
    {ranked_recommendations[k].rec.product_id : k \in 1..Len(ranked_recommendations)}
ReasonsOf(product) ==
    LET metrics == calculate_application_metrics(the_application)
    IN  _apply_hard_filters_with_tenor(the_application, metrics, product,
                                       _extract_user_input(the_application, metrics),
                                       effective_tenor_of(the_application, product))[2]

\* C30: after generate_recommendations processed the catalog every product is
\* in exactly one of two groups, rejected (exactly when the filter returned a
\* non-empty reason list) or scored; no product is both recommended and
\* rejected; the scenarios map holds the summaries "+0%", "+2%", "+4%" for
\* every scored product, those cut from the top 5 included, and for no
\* rejected product.
C30_RejectedOrScored ==
    RecoReturned =>
        /\ RejectedIds \cup ScoredIds = ProductIds
        /\ RejectedIds \cap ScoredIds = {}
        /\ Len(Rejected) = Cardinality(RejectedIds)
        /\ Len(ranked_recommendations) = Cardinality(ScoredIds)
        /\ \A i \in 1..Len(products) :
               products[i].id \in RejectedIds <=> ReasonsOf(products[i]) # <<>>
        /\ \A k \in 1..Len(Rejected) :
               Rejected[k].reasons = ReasonsOf(products[Rejected[k].product_id])
        /\ TopIds \subseteq ScoredIds
        /\ TopIds \cap RejectedIds = {}
        /\ DOMAIN response.scenarios = ScoredIds
        /\ \A id \in ScoredIds :
               DOMAIN response.scenarios[id] = {"+0%", "+2%", "+4%"}

\* a catalog with a rejected product and more scored products than the
\* response recommends
C30_Witness ==
    /\ RecoReturned
    /\ Rejected # <<>>
    /\ Cardinality(ScoredIds) > Len(Top)
    /\ Len(Top) = 5
    /\ \E id \in ScoredIds \ TopIds : id \in DOMAIN response.scenarios

====
